---- MODULE Spec2Model ----
(***************************************************************************)
(* naivecmp: compare two directory trees by fingerprinting file attributes. *)
(* Model of src/main.go: the concurrent scanner (mapDir / mapWorker), the   *)
(* fingerprint function (hash), the matcher (walkDir) and the run (work).   *)
(*                                                                          *)
(* Strings are sequences of byte codes.  A node of a dirtree is identified  *)
(* by the sequence of names leading to it from the root; a tree is the set  *)
(* of its nodes (the root is <<>>).                                         *)
(***************************************************************************)
EXTENDS Integers, Sequences, FiniteSets, Bags, TLC

VARIABLES
    CLI,        \* parsed command line: attribute flags, Workers, Text, Debug
    seed,       \* maphash seed of this run
    disk,       \* disk[s]: the directory tree found under root s
    unreadable, \* unreadable[s]: paths whose ReadDir / Lstat fails
    dirMap,     \* dirMap[s]: root (tree), hashMap, entryMap, mutexes, wg
    dirChan,    \* dirChan[s]: buffered channel of ScanEntry
    workers,    \* workers[s]: bag of worker goroutines (each a call stack)
    mapDirPc,   \* mapDirPc[s]: position of the goroutine calling mapDir
    workPc,     \* position of work() in the main goroutine
    workWg,     \* work's WaitGroup counter
    diff,       \* diff[s]: the DiffTree built by walkDir, or NoTree
    stdout,     \* the lines written to standard output, in order
    logged,     \* status lines logged so far (set)
    proc,       \* "running", "exit0" (main returned), "exit1" (log.Fatalln),
                \* "exit2" (a Go panic or fatal error)
    ui          \* the GUI: front page, the TreeView of each page, lastSelection,
                \* and whether app.Stop() has been called

vars == <<CLI, seed, disk, unreadable, dirMap, dirChan, workers, mapDirPc,
          workPc, workWg, diff, stdout, logged, proc, ui>>

Sides == {"A", "B"}

Other(s) == IF s = "A" THEN "B" ELSE "A"

\* the capacity of dirChan: make(chan ScanEntry, 1024)
ChanCap == 1024

(***************************************************************************)
(* Bounds of the model.                                                     *)
(***************************************************************************)
\* largest worker count tried (smaller ones, and 0, are tried as well)
MaxWorkers == 2

\* largest depth tried for the keys [1] to [9]
MaxDepth == 2

(***************************************************************************)
(* Strings and paths.                                                       *)
(***************************************************************************)
\* os.PathSeparator on the modelled host
PathSeparator == 47

\* "/" as used by dirtree paths and by walkDir's Split
Slash == 47

\* "." as returned by filepath.Dir for a path without a directory
Dot == 46

RECURSIVE SplitFrom(_, _, _)
\* strings.Split: cut str at every occurrence of sep; cur is the part being read
SplitFrom(str, sep, cur) ==
    IF str = <<>> THEN <<cur>>
    ELSE IF Head(str) = sep THEN <<cur>> \o SplitFrom(Tail(str), sep, <<>>)
    ELSE SplitFrom(Tail(str), sep, Append(cur, Head(str)))

Split(str, sep) == SplitFrom(str, sep, <<>>)

\* filepath.Join(dir, name) for a clean dir and a plain name
JoinPath(dir, name) ==
    IF dir = <<>> THEN name ELSE dir \o <<PathSeparator>> \o name

\* index of the last separator of a path, 0 when there is none
LastSep(path) ==
    LET idx == {i \in 1..Len(path) : path[i] = PathSeparator}
    IN IF idx = {} THEN 0 ELSE CHOOSE i \in idx : \A j \in idx : j <= i

\* the directory part of a relative path, "" for a top-level entry
ParentOf(path) ==
    IF LastSep(path) = 0 THEN <<>> ELSE SubSeq(path, 1, LastSep(path) - 1)

\* info.Name(): the last element of the path
BaseName(path) == SubSeq(path, LastSep(path) + 1, Len(path))

\* filepath.Dir of a clean relative path
FilepathDir(path) == IF LastSep(path) = 0 THEN <<Dot>> ELSE ParentOf(path)

\* byte-wise string order, as used by os.ReadDir's sort
RECURSIVE StrLess(_, _)
StrLess(a, b) ==
    IF b = <<>> THEN FALSE
    ELSE IF a = <<>> THEN TRUE
    ELSE IF Head(a) # Head(b) THEN Head(a) < Head(b)
    ELSE StrLess(Tail(a), Tail(b))

\* F of the value of e, e being evaluated once
With(e, F(_)) == CHOOSE r \in {F(x) : x \in {e}} : TRUE

RECURSIVE SortStrings(_)
\* the strings of S in byte-wise order: the empty string first, then the
\* others in blocks by their first byte, each block in the order of the rest
\* of its strings; a block is <<first byte, strings before it, sorted rests>>
SortStrings(S) ==
    With(S \ {<<>>}, LAMBDA T :
        With({<<b, Cardinality({y \in T : Head(y) < b}),
                SortStrings({Tail(y) : y \in {z \in T : Head(z) = b}})>> :
                 b \in {Head(y) : y \in T}},
             LAMBDA blocks :
                 (IF <<>> \in S THEN <<<<>>>> ELSE <<>>)
                 \o [i \in 1..Cardinality(T) |->
                        LET blk == CHOOSE t \in blocks :
                                       t[2] < i /\ i <= t[2] + Len(t[3])
                        IN <<blk[1]>> \o blk[3][i - blk[2]]]))

(***************************************************************************)
(* The file system under a root: the directories and the files (with the    *)
(* metadata Lstat returns), both keyed by root-relative path.               *)
(***************************************************************************)
AllPaths(d) == d.dirs \cup DOMAIN d.files

\* os.ReadDir(basePath/path): the entries of the directory, sorted by name
ReadDirNames(d, path) ==
    SortStrings({BaseName(q) : q \in {r \in AllPaths(d) : ParentOf(r) = path}})

\* mutant of ChildEntries: the loop over the children stops one entry early
ChildEntriesDropLast(d, path) ==
    With(ReadDirNames(d, path), LAMBDA names :
        [i \in 1..(Len(names) - 1) |->
            [path |-> JoinPath(path, names[i]),
             isDir |-> JoinPath(path, names[i]) \in d.dirs]])

\* the ScanEntry values mapWorker builds for the children of a directory
ChildEntries(d, path) ==
    With(ReadDirNames(d, path), LAMBDA names :
        [i \in 1..Len(names) |->
            [path |-> JoinPath(path, names[i]),
             isDir |-> JoinPath(path, names[i]) \in d.dirs]])

(***************************************************************************)
(* hash: the fingerprint of a leaf.                                         *)
(***************************************************************************)
RECURSIVE BigEndian(_, _)
\* mutant of LittleEndian: the most significant byte comes first
BigEndian(v, n) ==
    IF n = 0 THEN <<>> ELSE BigEndian(v \div 256, n - 1) \o <<v % 256>>

RECURSIVE LittleEndian(_, _)
\* binary.LittleEndian.AppendUintN: the n low bytes of v, lowest first
LittleEndian(v, n) ==
    IF n = 0 THEN <<>> ELSE <<v % 256>> \o LittleEndian(v \div 256, n - 1)

\* mutant of HashData: the name is appended whether or not its flag is enabled
HashDataAlwaysName(cli, filePath, info) ==
    (IF cli.UseMode THEN LittleEndian(info.mode, 4) ELSE <<>>)
    \o (IF cli.UseModTime THEN LittleEndian(info.mtime, 8) ELSE <<>>)
    \o (IF cli.UseSize THEN LittleEndian(info.size, 8) ELSE <<>>)
    \o (IF cli.UsePath THEN FilepathDir(filePath) \o <<PathSeparator>> ELSE <<>>)
    \o BaseName(filePath)

\* the byte sequence hash() feeds to maphash
HashData(cli, filePath, info) ==
    (IF cli.UseMode THEN LittleEndian(info.mode, 4) ELSE <<>>)
    \o (IF cli.UseModTime THEN LittleEndian(info.mtime, 8) ELSE <<>>)
    \o (IF cli.UseSize THEN LittleEndian(info.size, 8) ELSE <<>>)
    \o (IF cli.UsePath THEN FilepathDir(filePath) \o <<PathSeparator>> ELSE <<>>)
    \o (IF cli.UseName THEN BaseName(filePath) ELSE <<>>)

\* maphash is a family of hash functions indexed by the seed.  Seed 0 stands
\* for a member without collisions on the modelled inputs, any other seed for
\* a member under which different byte sequences collide.
HashModulus(sd) == IF sd = 0 THEN 1000003 ELSE 2

RECURSIVE HashFold(_, _, _)
HashFold(h, data, m) ==
    IF data = <<>> THEN h
    ELSE HashFold((h * 31 + Head(data) + 1) % m, Tail(data), m)

\* maphash.Bytes(seed, data)
MapHashBytes(sd, data) == HashFold(sd, data, HashModulus(sd))

hash(cli, sd, filePath, info) == MapHashBytes(sd, HashData(cli, filePath, info))

(***************************************************************************)
(* dirtree: a tree is the set of its nodes, a node the names from the root. *)
(***************************************************************************)
Root == <<>>

NoTree == {}

NewTree == {Root}

\* Dirent.Child(name) # nil
HasChild(tree, node, name) == Append(node, name) \in tree

\* the children of a node (Dirent.ForChild / Dirent.List range over these)
ChildrenOf(tree, node) ==
    {m \in tree : Len(m) = Len(node) + 1 /\ SubSeq(m, 1, Len(node)) = node}

RECURSIVE InsertParts(_, _, _)
\* the loop "newNode := curNode.Child(part); if newNode == nil { curNode.Add(part) }"
InsertParts(tree, curNode, parts) ==
    IF parts = <<>> THEN tree
    ELSE LET newNode == Append(curNode, Head(parts))
         IN InsertParts(IF HasChild(tree, curNode, Head(parts))
                           THEN tree ELSE tree \cup {newNode},
                        newNode, Tail(parts))

RECURSIVE DirentPath(_)
\* Dirent.Path(): the names from the root, each preceded by "/"
DirentPath(node) ==
    IF node = <<>> THEN <<>>
    ELSE DirentPath(SubSeq(node, 1, Len(node) - 1)) \o <<Slash>> \o node[Len(node)]

\* the non-empty parts of a split path ("if part == "" { continue }")
NonEmptyParts(parts) == SelectSeq(parts, LAMBDA p : p # <<>>)

(***************************************************************************)
(* walkDir: the matcher, and the DiffTree it builds.                        *)
(***************************************************************************)
\* mutant of Matched: any non-empty bucket counts as a match
MatchedAnyCandidate(mapA, mapB, dirA) ==
    mapA.entryMap[dirA] \in DOMAIN mapB.hashMap

\* mutant of Matched: the fallback loop starts at the second candidate
MatchedSkipFirst(mapA, mapB, dirA) ==
    LET h == mapA.entryMap[dirA]
    IN IF h \notin DOMAIN mapB.hashMap THEN FALSE
       ELSE LET matches == mapB.hashMap[h]
            IN IF Len(matches) = 1 THEN TRUE
               ELSE \E i \in 2..Len(matches) :
                        DirentPath(matches[i]) = DirentPath(dirA)

\* mutant of Matched: the path is compared even for a single candidate
MatchedByPathOnly(mapA, mapB, dirA) ==
    LET h == mapA.entryMap[dirA]
    IN IF h \notin DOMAIN mapB.hashMap THEN FALSE
       ELSE \E i \in 1..Len(mapB.hashMap[h]) :
                DirentPath(mapB.hashMap[h][i]) = DirentPath(dirA)

\* mutant of Matched: the fallback looks at the first candidate only
MatchedFirstOnly(mapA, mapB, dirA) ==
    LET h == mapA.entryMap[dirA]
    IN IF h \notin DOMAIN mapB.hashMap THEN FALSE
       ELSE LET matches == mapB.hashMap[h]
            IN IF Len(matches) = 1 THEN TRUE
               ELSE DirentPath(matches[1]) = DirentPath(dirA)

\* "matched" of walkDir for the leaf dirA of mapA against mapB
Matched(mapA, mapB, dirA) ==
    LET h == mapA.entryMap[dirA]
    IN IF h \notin DOMAIN mapB.hashMap THEN FALSE
       ELSE LET matches == mapB.hashMap[h]
            IN IF Len(matches) = 1 THEN TRUE
               ELSE \E i \in 1..Len(matches) :
                        DirentPath(matches[i]) = DirentPath(dirA)

RECURSIVE walkDir(_, _, _, _)
RECURSIVE WalkChildren(_, _, _, _)
\* mutant of walkDir: a directory is entered into the DiffTree when it is
\* visited, before its children are looked at
walkDirEntersDirectories(mapA, mapB, dirA, tree) ==
    IF ChildrenOf(mapA.root, dirA) # {}
    THEN WalkChildren(mapA, mapB, ChildrenOf(mapA.root, dirA),
             InsertParts(tree, Root, NonEmptyParts(Split(DirentPath(dirA), Slash))))
    ELSE IF dirA \notin DOMAIN mapA.entryMap
    THEN tree
    ELSE IF Matched(mapA, mapB, dirA)
    THEN tree
    ELSE InsertParts(tree, Root, NonEmptyParts(Split(DirentPath(dirA), Slash)))

\* walkDir(mapA, mapB, dirA, diff): the DiffTree after visiting dirA
walkDir(mapA, mapB, dirA, tree) ==
    IF ChildrenOf(mapA.root, dirA) # {}
    THEN WalkChildren(mapA, mapB, ChildrenOf(mapA.root, dirA), tree)
    ELSE IF dirA \notin DOMAIN mapA.entryMap
    THEN tree
    ELSE IF Matched(mapA, mapB, dirA)
    THEN tree
    ELSE InsertParts(tree, Root, NonEmptyParts(Split(DirentPath(dirA), Slash)))

\* dirA.ForChild(func(d) { walkDir(mapA, mapB, d, diff) })
WalkChildren(mapA, mapB, kids, tree) ==
    IF kids = {} THEN tree
    ELSE LET d == CHOOSE k \in kids : TRUE
         IN WalkChildren(mapA, mapB, kids \ {d}, walkDir(mapA, mapB, d, tree))

RECURSIVE printDir(_, _)
RECURSIVE PrintChildren(_, _)
\* printDir(dir): the path lines printed for the subtree at dir
printDir(tree, dir) ==
    IF ChildrenOf(tree, dir) # {}
    THEN PrintChildren(tree,
             [i \in 1..Cardinality(ChildrenOf(tree, dir)) |->
                 Append(dir, SortStrings({c[Len(c)] : c \in ChildrenOf(tree, dir)})[i])])
    ELSE <<DirentPath(dir)>>

PrintChildren(tree, kids) ==
    IF kids = <<>> THEN <<>>
    ELSE printDir(tree, Head(kids)) \o PrintChildren(tree, Tail(kids))

(***************************************************************************)
(* The scanner: goroutines, frames of mapWorker, the channel.               *)
(***************************************************************************)
\* a call of mapWorker(scanEntry, dirMap, scanChan) at its first statement
NewFrame(e) ==
    [path |-> e.path, isDir |-> e.isDir,
     pc |-> IF e.isDir THEN "ReadDir" ELSE "TreeLock",
     children |-> <<>>, curNode |-> Root, newNodeNil |-> FALSE,
     data |-> <<>>, h |-> 0, err |-> FALSE]

\* a worker parked in "for entry := range dirChan"
Idle == <<>>

Top(st) == st[Len(st)]

SetTop(st, f) == [st EXCEPT ![Len(st)] = f]

Running(s) == BagToSet(workers[s]) \ {Idle}

\* the goroutine in state old moves to state new
Move(s, old, new) ==
    workers' = [workers EXCEPT ![s] = (@ (-) SetToBag({old})) (+) SetToBag({new})]

\* mutant of NodeOf: curNode is not advanced on the last part of the path and
\* stays at the node of the containing directory
NodeOfContainingDirectory(path) ==
    SubSeq(Split(path, PathSeparator), 1, Len(Split(path, PathSeparator)) - 1)

\* curNode after the insertion loop of mapWorker
NodeOf(path) == Split(path, PathSeparator)

FreshDirMap ==
    [root |-> NewTree, hashMap |-> <<>>, entryMap |-> <<>>,
     mapMutex |-> FALSE, treeMutex |-> FALSE, wg |-> 0]

\* mapDir up to wg.Wait(): start the workers, count and queue the root task
MapDirStart(s) ==
    /\ proc = "running"
    /\ mapDirPc[s] = "start"
    /\ workers' = [workers EXCEPT ![s] =
                      [st \in (IF CLI.Workers > 0 THEN {Idle} ELSE {}) |-> CLI.Workers]]
    /\ dirMap' = [dirMap EXCEPT ![s].wg = @ + 1]
    /\ dirChan' = [dirChan EXCEPT ![s] = Append(@, [path |-> <<>>, isDir |-> TRUE])]
    /\ mapDirPc' = [mapDirPc EXCEPT ![s] = "wait"]
    /\ UNCHANGED <<ui, CLI, seed, disk, unreadable, workPc, workWg, diff, stdout, logged, proc>>

\* wg.Wait() returns, mapDir returns the index, work's goroutine stores it
MapDirReturn(s) ==
    /\ proc = "running"
    /\ mapDirPc[s] = "wait"
    /\ dirMap[s].wg = 0
    /\ mapDirPc' = [mapDirPc EXCEPT ![s] = "returned"]
    /\ logged' = logged \cup {<<"Finished", s>>}
    /\ workWg' = workWg - 1
    /\ UNCHANGED <<ui, CLI, seed, disk, unreadable, dirMap, dirChan, workers, workPc,
                   diff, stdout, proc>>

\* a parked worker receives the next entry and calls mapWorker
Receive(s) ==
    /\ proc = "running"
    /\ BagIn(Idle, workers[s])
    /\ dirChan[s] # <<>>
    /\ Move(s, Idle, <<NewFrame(Head(dirChan[s]))>>)
    /\ dirChan' = [dirChan EXCEPT ![s] = Tail(@)]
    /\ UNCHANGED <<ui, CLI, seed, disk, unreadable, dirMap, mapDirPc, workPc, workWg,
                   diff, stdout, logged, proc>>

\* mutant of ReadDir: the children are not added to the pending-work counter
ReadDirWithoutAdd(s, st) ==
    /\ proc = "running"
    /\ Top(st).pc = "ReadDir"
    /\ IF Top(st).path \in unreadable[s]
       THEN Move(s, st, SetTop(st, [Top(st) EXCEPT !.pc = "Return", !.err = TRUE]))
       ELSE Move(s, st, SetTop(st, [Top(st) EXCEPT
                !.pc = "Loop", !.children = ChildEntries(disk[s], Top(st).path)]))
    /\ UNCHANGED <<ui, CLI, seed, disk, unreadable, dirMap, dirChan, mapDirPc, workPc,
                   workWg, diff, stdout, logged, proc>>

\* os.ReadDir of a directory task, then wg.Add(len(children))
ReadDir(s, st) ==
    /\ proc = "running"
    /\ Top(st).pc = "ReadDir"
    /\ IF Top(st).path \in unreadable[s]
       THEN /\ Move(s, st, SetTop(st, [Top(st) EXCEPT !.pc = "Return", !.err = TRUE]))
            /\ UNCHANGED dirMap
       ELSE LET children == ChildEntries(disk[s], Top(st).path)
            IN /\ dirMap' = [dirMap EXCEPT ![s].wg = @ + Len(children)]
               /\ Move(s, st, SetTop(st, [Top(st) EXCEPT !.pc = "Loop",
                                                         !.children = children]))
    /\ UNCHANGED <<ui, CLI, seed, disk, unreadable, dirChan, mapDirPc, workPc, workWg,
                   diff, stdout, logged, proc>>

\* "case scanChan <- newEntry": the channel has a free slot
LoopSend(s, st) ==
    /\ proc = "running"
    /\ Top(st).pc = "Loop"
    /\ Top(st).children # <<>>
    /\ Len(dirChan[s]) < ChanCap
    /\ dirChan' = [dirChan EXCEPT ![s] = Append(@, Head(Top(st).children))]
    /\ Move(s, st, SetTop(st, [Top(st) EXCEPT !.children = Tail(@)]))
    /\ UNCHANGED <<ui, CLI, seed, disk, unreadable, dirMap, mapDirPc, workPc, workWg,
                   diff, stdout, logged, proc>>

\* mutant of LoopRecurse: a queue that is exactly full is not seen as full
LoopRecurseOffByOne(s, st) ==
    /\ proc = "running"
    /\ Top(st).pc = "Loop"
    /\ Top(st).children # <<>>
    /\ Len(dirChan[s]) > ChanCap
    /\ Move(s, st, Append(SetTop(st, [Top(st) EXCEPT !.children = Tail(@)]),
                          NewFrame(Head(Top(st).children))))
    /\ UNCHANGED <<ui, CLI, seed, disk, unreadable, dirMap, dirChan, mapDirPc, workPc,
                   workWg, diff, stdout, logged, proc>>

\* "default": the channel is full, the worker calls mapWorker on the child itself
LoopRecurse(s, st) ==
    /\ proc = "running"
    /\ Top(st).pc = "Loop"
    /\ Top(st).children # <<>>
    /\ Len(dirChan[s]) >= ChanCap
    /\ Move(s, st, Append(SetTop(st, [Top(st) EXCEPT !.children = Tail(@)]),
                          NewFrame(Head(Top(st).children))))
    /\ UNCHANGED <<ui, CLI, seed, disk, unreadable, dirMap, dirChan, mapDirPc, workPc,
                   workWg, diff, stdout, logged, proc>>

\* mutant of TreeLock: the lock is taken without waiting for its holder
TreeLockWithoutExclusion(s, st) ==
    /\ proc = "running"
    /\ Top(st).pc = "TreeLock"
    /\ dirMap' = [dirMap EXCEPT ![s].treeMutex = TRUE]
    /\ Move(s, st, SetTop(st, [Top(st) EXCEPT !.pc = "TreeInsert"]))
    /\ UNCHANGED <<ui, CLI, seed, disk, unreadable, dirChan, mapDirPc, workPc, workWg,
                   diff, stdout, logged, proc>>

\* dirMap.treeMutex.Lock()
TreeLock(s, st) ==
    /\ proc = "running"
    /\ Top(st).pc = "TreeLock"
    /\ ~dirMap[s].treeMutex
    /\ dirMap' = [dirMap EXCEPT ![s].treeMutex = TRUE]
    /\ Move(s, st, SetTop(st, [Top(st) EXCEPT !.pc = "TreeInsert"]))
    /\ UNCHANGED <<ui, CLI, seed, disk, unreadable, dirChan, mapDirPc, workPc, workWg,
                   diff, stdout, logged, proc>>

\* mutant of TreeInsert: treeMutex is not unlocked before os.Lstat
TreeInsertKeepsLock(s, st) ==
    /\ proc = "running"
    /\ Top(st).pc = "TreeInsert"
    /\ dirMap' = [dirMap EXCEPT
                     ![s].root = InsertParts(@, Root, Split(Top(st).path, PathSeparator))]
    /\ Move(s, st, SetTop(st, [Top(st) EXCEPT !.pc = "Lstat"]))
    /\ UNCHANGED <<ui, CLI, seed, disk, unreadable, dirChan, mapDirPc, workPc, workWg,
                   diff, stdout, logged, proc>>

\* the insertion loop over the parts of the path, then treeMutex.Unlock()
TreeInsert(s, st) ==
    /\ proc = "running"
    /\ Top(st).pc = "TreeInsert"
    /\ dirMap' = [dirMap EXCEPT
                     ![s].root = InsertParts(@, Root, Split(Top(st).path, PathSeparator)),
                     ![s].treeMutex = FALSE]
    /\ Move(s, st, SetTop(st, [Top(st) EXCEPT !.pc = "Lstat"]))
    /\ UNCHANGED <<ui, CLI, seed, disk, unreadable, dirChan, mapDirPc, workPc, workWg,
                   diff, stdout, logged, proc>>

\* the part of the path that the insertion loop of the call f is at
PartOf(f) == Split(f.path, PathSeparator)[Len(f.curNode) + 1]

\* "curNode = newNode" and the end of one turn of the insertion loop of call
\* f: after the last part the loop is left and treeMutex is unlocked
AfterPart(s, st, tree) ==
    LET newNode == Append(Top(st).curNode, PartOf(Top(st)))
        last == newNode = NodeOf(Top(st).path)
    IN /\ dirMap' = [dirMap EXCEPT ![s].root = tree,
                                   ![s].treeMutex = IF last THEN FALSE ELSE @]
       /\ Move(s, st, SetTop(st, [Top(st) EXCEPT
                !.curNode = newNode, !.newNodeNil = FALSE,
                !.pc = IF last THEN "Lstat" ELSE "TreeInsert"]))

\* one turn of the insertion loop, statement by statement:
\* "newNode := curNode.Child(part)"
TreeChild(s, st) ==
    /\ proc = "running"
    /\ Top(st).pc = "TreeInsert"
    /\ ~Top(st).newNodeNil
    /\ IF HasChild(dirMap[s].root, Top(st).curNode, PartOf(Top(st)))
       THEN AfterPart(s, st, dirMap[s].root)
       ELSE /\ Move(s, st, SetTop(st, [Top(st) EXCEPT !.newNodeNil = TRUE]))
            /\ UNCHANGED dirMap
    /\ UNCHANGED <<ui, CLI, seed, disk, unreadable, dirChan, mapDirPc, workPc, workWg,
                   diff, stdout, logged, proc>>

\* mutant of TreeAdd: mapWorker returns after Add, inside the loop, without
\* unlocking treeMutex
TreeAddReturnsLocked(s, st) ==
    /\ proc = "running"
    /\ Top(st).pc = "TreeInsert"
    /\ Top(st).newNodeNil
    /\ dirMap' = [dirMap EXCEPT ![s].root =
                     @ \cup {Append(Top(st).curNode, PartOf(Top(st)))}]
    /\ Move(s, st, SetTop(st, [Top(st) EXCEPT !.pc = "Return"]))
    /\ UNCHANGED <<ui, CLI, seed, disk, unreadable, dirChan, mapDirPc, workPc, workWg,
                   diff, stdout, logged, proc>>

\* "newNode, err = curNode.Add(part)": an error if the name exists by now,
\* and then mapWorker returns it without unlocking treeMutex
TreeAdd(s, st) ==
    /\ proc = "running"
    /\ Top(st).pc = "TreeInsert"
    /\ Top(st).newNodeNil
    /\ IF HasChild(dirMap[s].root, Top(st).curNode, PartOf(Top(st)))
       THEN /\ Move(s, st, SetTop(st, [Top(st) EXCEPT !.pc = "Return", !.err = TRUE]))
            /\ UNCHANGED dirMap
       ELSE AfterPart(s, st, dirMap[s].root
                                \cup {Append(Top(st).curNode, PartOf(Top(st)))})
    /\ UNCHANGED <<ui, CLI, seed, disk, unreadable, dirChan, mapDirPc, workPc, workWg,
                   diff, stdout, logged, proc>>

\* os.Lstat of the leaf, then h := hash(path, info)
Lstat(s, st) ==
    /\ proc = "running"
    /\ Top(st).pc = "Lstat"
    /\ IF Top(st).path \in unreadable[s]
       THEN Move(s, st, SetTop(st, [Top(st) EXCEPT !.pc = "Return", !.err = TRUE]))
       ELSE Move(s, st, SetTop(st, [Top(st) EXCEPT
                !.pc = "MapLock",
                !.data = HashData(CLI, Top(st).path, disk[s].files[Top(st).path]),
                !.h = hash(CLI, seed, Top(st).path, disk[s].files[Top(st).path])]))
    /\ UNCHANGED <<ui, CLI, seed, disk, unreadable, dirMap, dirChan, mapDirPc, workPc,
                   workWg, diff, stdout, logged, proc>>

\* dirMap.mapMutex.Lock()
MapLock(s, st) ==
    /\ proc = "running"
    /\ Top(st).pc = "MapLock"
    /\ ~dirMap[s].mapMutex
    /\ dirMap' = [dirMap EXCEPT ![s].mapMutex = TRUE]
    /\ Move(s, st, SetTop(st, [Top(st) EXCEPT !.pc = "MapInsert"]))
    /\ UNCHANGED <<ui, CLI, seed, disk, unreadable, dirChan, mapDirPc, workPc, workWg,
                   diff, stdout, logged, proc>>

\* mutant of AddToBucket: an existing bucket is replaced, not appended to
AddToBucketOverwrite(hashMap, h, curNode) == (h :> <<curNode>>) @@ hashMap

\* the bucket of h after "append(v, curNode)" or "[]*Dirent{curNode}"
AddToBucket(hashMap, h, curNode) ==
    IF h \in DOMAIN hashMap
    THEN [hashMap EXCEPT ![h] = Append(@, curNode)]
    ELSE (h :> <<curNode>>) @@ hashMap

\* the hashMap and entryMap update, then mapMutex.Unlock()
MapInsert(s, st) ==
    /\ proc = "running"
    /\ Top(st).pc = "MapInsert"
    /\ dirMap' = [dirMap EXCEPT
                     ![s].hashMap = AddToBucket(@, Top(st).h, NodeOf(Top(st).path)),
                     ![s].entryMap = (NodeOf(Top(st).path) :> Top(st).h) @@ @,
                     ![s].mapMutex = FALSE]
    /\ Move(s, st, SetTop(st, [Top(st) EXCEPT !.pc = "Return"]))
    /\ UNCHANGED <<ui, CLI, seed, disk, unreadable, dirChan, mapDirPc, workPc, workWg,
                   diff, stdout, logged, proc>>

\* the state of the goroutine after the top frame of st has returned
AfterReturn(st) ==
    IF Len(st) = 1
    THEN IF Top(st).err THEN <<[Top(st) EXCEPT !.pc = "Fatalln"]>> ELSE Idle
    ELSE LET rest == SubSeq(st, 1, Len(st) - 1)
         IN IF Top(st).err
            THEN SetTop(rest, [Top(rest) EXCEPT !.pc = "Return", !.err = TRUE])
            ELSE rest

\* mutant of Return: mapWorker returns without the deferred wg.Done()
ReturnWithoutDone(s, st) ==
    /\ proc = "running"
    /\ \/ Top(st).pc = "Return"
       \/ Top(st).pc = "Loop" /\ Top(st).children = <<>>
    /\ Move(s, st, AfterReturn(st))
    /\ UNCHANGED <<ui, CLI, seed, disk, unreadable, dirMap, dirChan, mapDirPc, workPc,
                   workWg, diff, stdout, logged, proc>>

\* mapWorker returns: the deferred wg.Done() runs, then the caller goes on
Return(s, st) ==
    /\ proc = "running"
    /\ \/ Top(st).pc = "Return"
       \/ Top(st).pc = "Loop" /\ Top(st).children = <<>>
    /\ dirMap' = [dirMap EXCEPT ![s].wg = @ - 1]
    /\ Move(s, st, AfterReturn(st))
    /\ UNCHANGED <<ui, CLI, seed, disk, unreadable, dirChan, mapDirPc, workPc, workWg,
                   diff, stdout, logged, proc>>

\* log.Fatalln(err) in the worker goroutine: the process exits with status 1
Fatalln(s, st) ==
    /\ proc = "running"
    /\ Top(st).pc = "Fatalln"
    /\ proc' = "exit1"
    /\ UNCHANGED <<ui, CLI, seed, disk, unreadable, dirMap, dirChan, workers, mapDirPc,
                   workPc, workWg, diff, stdout, logged>>

\* the goroutine of mapDir(s) has ended or waits in dirMap.wg.Wait()
ScanBlocked(s) ==
    \/ mapDirPc[s] = "returned"
    \/ mapDirPc[s] = "wait" /\ dirMap[s].wg > 0

\* no worker of scan s runs a task, and none can receive one
WorkersBlocked(s) ==
    /\ Running(s) = {}
    /\ BagIn(Idle, workers[s]) => dirChan[s] = <<>>

\* every goroutine is blocked, main in wg.Wait(): the Go runtime ends the
\* process ("all goroutines are asleep - deadlock!", exit status 2)
RuntimeDeadlock ==
    /\ proc = "running"
    /\ workPc = "wait"
    /\ workWg > 0
    /\ \A s \in Sides : ScanBlocked(s) /\ WorkersBlocked(s)
    /\ proc' = "exit2"
    /\ UNCHANGED <<ui, CLI, seed, disk, unreadable, dirMap, dirChan, workers, mapDirPc,
                   workPc, workWg, diff, stdout, logged>>

(***************************************************************************)
(* The GUI: a tview TreeView per page.  A TreeNode is named by the DiffTree *)
(* node of its reference; CLI.FileCount has its default, true.              *)
(***************************************************************************)
\* the dummy last child of the root: text " ", reference nil
Dummy == Append(Root, <<>>)

\* hasChildren(d) for the node d of a DiffTree
hasChildren(tree, d) == ChildrenOf(tree, d) # {}

RECURSIVE DirentAt(_, _, _)
\* the loop of pathToDirent: the set holding the node reached from currNode by
\* the parts, the empty set for nil
DirentAt(tree, currNode, parts) ==
    IF parts = <<>> THEN {currNode}
    ELSE IF Head(parts) = <<>> THEN DirentAt(tree, currNode, Tail(parts))
    ELSE IF HasChild(tree, currNode, Head(parts))
         THEN DirentAt(tree, Append(currNode, Head(parts)), Tail(parts))
         ELSE {}

\* pathToDirent(root, path): {} stands for nil
pathToDirent(tree, path) == DirentAt(tree, Root, Split(path, Slash))

\* Dirent.List(): the names of the children, sorted
List(tree, d) == SortStrings({c[Len(c)] : c \in ChildrenOf(tree, d)})

\* FileCountPlaceHolder: "[?] "
FileCountPlaceHolder == <<91, 63, 93, 32>>

\* CLI.DirA and CLI.DirB: "a" and "b"
DirPath(s) == IF s = "A" THEN <<97>> ELSE <<98>>

\* the characters tview takes for the inside of a tag: letters, digits and
\* the characters _ , ; : space - . " #
TagChar(c) ==
    \/ c \in 97..122 \/ c \in 65..90 \/ c \in 48..57
    \/ c \in {95, 44, 59, 58, 32, 45, 46, 34, 35}

RECURSIVE TagRun(_, _)
\* the number of tag characters of text from position i on
TagRun(text, i) ==
    IF i <= Len(text) /\ TagChar(text[i]) THEN 1 + TagRun(text, i + 1) ELSE 0

RECURSIVE BracketRun(_, _)
\* the number of "[" of text from position i on
BracketRun(text, i) ==
    IF i <= Len(text) /\ text[i] = 91 THEN 1 + BracketRun(text, i + 1) ELSE 0

\* the length of the tag-like prefix "[", tag characters, any "[", "]" of text,
\* 0 when text does not start with one
TagLen(text) ==
    IF text = <<>> \/ Head(text) # 91 THEN 0
    ELSE LET r == TagRun(text, 2)
             b == BracketRun(text, 2 + r)
         IN IF r >= 1 /\ 2 + r + b <= Len(text) /\ text[2 + r + b] = 93
            THEN 2 + r + b ELSE 0

RECURSIVE Escape(_)
\* tview.Escape: "[" is put before the "]" of everything that looks like a tag
Escape(text) ==
    IF text = <<>> THEN <<>>
    ELSE IF TagLen(text) > 0
         THEN SubSeq(text, 1, TagLen(text) - 1) \o <<91, 93>>
              \o Escape(SubSeq(text, TagLen(text) + 1, Len(text)))
    ELSE <<Head(text)>> \o Escape(Tail(text))

RECURSIVE Decimal(_)
\* the digits fmt.Sprintf("%d") prints for a count
Decimal(n) ==
    IF n < 10 THEN <<48 + n>> ELSE Decimal(n \div 10) \o <<48 + (n % 10)>>

\* strings.Index(text, "] "): the offset of the first occurrence, -1 for none
IndexOfBracket(text) ==
    LET at == {i \in 1..(Len(text) - 1) : text[i] = 93 /\ text[i + 1] = 32}
    IN IF at = {} THEN -1 ELSE (CHOOSE i \in at : \A j \in at : i <= j) - 1

\* the text updateFileCountText sets: "[newCount] " and the old text from
\* behind its first "] "
updateFileCountText(text, newCount) ==
    <<91>> \o Decimal(newCount) \o <<93, 32>>
    \o SubSeq(text, IndexOfBracket(text) + 3, Len(text))

\* a TreeView before renderUI has built it: the children of each TreeNode, the
\* expanded nodes, the colors, the file counts of the references, the texts,
\* the current node (none in "free move"), the nodes removed with [d], and
\* whether the handler has panicked
NoPage ==
    [kids |-> <<>>, expanded |-> {}, color |-> <<>>, fileCount |-> <<>>,
     text |-> <<>>, current |-> {}, hidden |-> {}, panicked |-> FALSE]

NoUI == [front |-> "A", page |-> [s \in Sides |-> NoPage], lastSelection |-> {},
         stopped |-> FALSE]

\* reference.isDir of the TreeNode n of page s
IsDirNode(s, n) == n = Root \/ (n # Dummy /\ hasChildren(diff[s], n))

\* TreeNode.selectable: the root, the directories and the dummy node
Selectable(s, n) == n = Dummy \/ IsDirNode(s, n)

\* the elements of a sequence
Elems(seq) == {seq[i] : i \in 1..Len(seq)}

\* the TreeNodes of the subtree of n in page pg
Subtree(pg, n) ==
    {m \in DOMAIN pg.kids : Len(m) >= Len(n) /\ SubSeq(m, 1, Len(n)) = n}

\* the nodes the TreeView draws: every ancestor is expanded
Visible(pg) ==
    {m \in DOMAIN pg.kids :
        \A i \in 0..(Len(m) - 1) : SubSeq(m, 1, i) \in pg.expanded}

\* mutant of EntryColor: a file keeps the color of a new file
EntryColorNewFiles(presentInBoth, isDir) ==
    IF isDir THEN (IF presentInBoth THEN "yellow" ELSE "green") ELSE "white"

\* the color addHandler picks for an entry
EntryColor(presentInBoth, isDir) ==
    IF presentInBoth
    THEN (IF isDir THEN "yellow" ELSE "blue")
    ELSE (IF isDir THEN "green" ELSE "white")

\* presentInBoth of addHandler for the entry named name under the node
PresentInBoth(node, name) ==
    \A t \in Sides :
        pathToDirent(diff[t], DirentPath(node) \o <<Slash>> \o name) # {}

\* "combined" of addHandler: the directories, then the files, each in the
\* order of List()
Combined(tree, node) ==
    SelectSeq(List(tree, node), LAMBDA c : hasChildren(tree, Append(node, c)))
    \o SelectSeq(List(tree, node), LAMBDA c : ~hasChildren(tree, Append(node, c)))

RECURSIVE addHandler(_, _, _)
RECURSIVE updateFileCounts(_, _, _)
RECURSIVE WalkFrom(_, _, _, _, _, _)

\* the callback of walkToClosestNode: node.Expand() for [tab], the collecting
\* of the parts for getPartsToNode
Callback(pg, node, expand) ==
    IF expand THEN [pg EXCEPT !.expanded = @ \cup {node}] ELSE pg

\* the loop of walkToClosestNode from currNode: the page, the closest node and
\* the nodes handed to the callback
WalkFrom(pg, s, currNode, parts, expand, visited) ==
    IF parts = <<>> THEN [page |-> pg, node |-> currNode, parts |-> visited]
    ELSE IF Head(parts) = <<>>
         THEN WalkFrom(pg, s, currNode, Tail(parts), expand, visited)
    ELSE With(With(pg, LAMBDA p : IF p.kids[currNode] = <<>>
                                  THEN addHandler(p, s, currNode) ELSE p),
              LAMBDA loaded :
                  LET found == SelectSeq(loaded.kids[currNode],
                                         LAMBDA c : c # Dummy /\ c[Len(c)] = Head(parts))
                  IN IF found = <<>>
                     THEN [page |-> loaded, node |-> currNode, parts |-> visited]
                     ELSE WalkFrom(Callback(loaded, Head(found), expand), s,
                                   Head(found), Tail(parts), expand,
                                   Append(visited, Head(found))))

walkToClosestNode(pg, s, path, expand) ==
    WalkFrom(Callback(pg, Root, expand), s, Root, Split(path, Slash), expand,
             <<Root>>)

\* getPartsToNode(root, node, pageData): node.GetReference() is type-asserted
getPartsToNode(pg, s, node) ==
    IF node = Dummy
    THEN [page |-> [pg EXCEPT !.panicked = TRUE], node |-> node, parts |-> <<>>]
    ELSE walkToClosestNode(pg, s, DirentPath(node), FALSE)

\* addHandler(root, node, pageData): the TreeNodes of the entries of the
\* node's directory are appended to its children
addHandler(pg, s, node) ==
    IF node = Dummy THEN pg
    ELSE LET names == Combined(diff[s], node)
             new == [i \in 1..Len(names) |-> Append(node, names[i])]
             added ==
                [pg EXCEPT
                    !.kids = [m \in DOMAIN @ \cup Elems(new) |->
                                 IF m = node THEN @[node] \o new
                                 ELSE IF m \in Elems(new) THEN <<>> ELSE @[m]],
                    !.expanded = @ \ Elems(new),
                    !.color = [m \in DOMAIN @ \cup Elems(new) |->
                                  IF m \in Elems(new)
                                  THEN EntryColor(PresentInBoth(node, m[Len(m)]),
                                                  hasChildren(diff[s], m))
                                  ELSE @[m]],
                    !.fileCount = [m \in DOMAIN @ \cup Elems(new) |->
                                      IF m \in Elems(new) THEN 1 ELSE @[m]],
                    !.text = [m \in DOMAIN @ \cup Elems(new) |->
                                 IF m \in Elems(new)
                                 THEN Escape(IF hasChildren(diff[s], m)
                                             THEN FileCountPlaceHolder \o m[Len(m)]
                                             ELSE m[Len(m)])
                                 ELSE @[m]]]
         IN updateFileCounts(added, s, node)

\* reference.fileCount = count; updateFileCountText(node, count)
SetCount(pg, node, count) ==
    With(count, LAMBDA c : [pg EXCEPT !.fileCount[node] = c,
                                      !.text[node] = updateFileCountText(@, c)])

RECURSIVE SumCounts(_, _)
\* the sum of the file counts of the children that have a reference
SumCounts(pg, children) ==
    IF children = <<>> THEN 0
    ELSE (IF Head(children) = Dummy THEN 0 ELSE pg.fileCount[Head(children)])
         + SumCounts(pg, Tail(children))

RECURSIVE CountParts(_, _)
\* the loop of updateFileCounts over the parts, from the last to the first
CountParts(pg, parts) ==
    IF parts = <<>> THEN pg
    ELSE LET part == parts[Len(parts)]
         IN CountParts(With(pg, LAMBDA p :
                                    SetCount(p, part, SumCounts(p, p.kids[part]))),
                       SubSeq(parts, 1, Len(parts) - 1))

\* updateFileCounts(root, node, pageData): the node gets the number of its
\* children as its count, then the counts are recomputed along the parts to
\* the node; node.GetReference() is type-asserted
updateFileCounts(pg, s, node) ==
    IF node = Dummy THEN [pg EXCEPT !.panicked = TRUE]
    ELSE IF ~IsDirNode(s, node) THEN pg
    ELSE With(With(pg, LAMBDA p : getPartsToNode(SetCount(p, node, Len(p.kids[node])),
                                                 s, node)),
              LAMBDA w : CountParts(w.page, w.parts))

\* TreeNode.CollapseAll(): the node and its descendants are collapsed
CollapseAll(pg, node) ==
    With(pg, LAMBDA p : [p EXCEPT !.expanded = @ \ Subtree(p, node)])

RECURSIVE selectHandler(_, _, _, _)
RECURSIVE SelectEach(_, _, _)
\* the loop of selectHandler over the children
SelectEach(pg, s, children) ==
    IF children = <<>> THEN pg
    ELSE SelectEach(selectHandler(pg, s, Head(children), TRUE), s, Tail(children))

\* selectHandler(root, node, recurse, pageData)
selectHandler(pg, s, node, recurse) ==
    With(pg, LAMBDA p :
        IF node \in p.expanded
        THEN IF recurse THEN CollapseAll(p, node)
             ELSE [p EXCEPT !.expanded = @ \ {node}]
        ELSE With([(IF p.kids[node] = <<>> THEN addHandler(p, s, node) ELSE p)
                      EXCEPT !.expanded = @ \cup {node}],
                  LAMBDA shown :
                      IF recurse THEN SelectEach(shown, s, shown.kids[node])
                      ELSE shown))

RECURSIVE expandAtDepth(_, _, _, _)
RECURSIVE ExpandEach(_, _, _, _)
\* the loop of expandAtDepth over the children
ExpandEach(pg, s, children, depth) ==
    IF children = <<>> THEN pg
    ELSE ExpandEach(expandAtDepth(pg, s, Head(children), depth), s,
                    Tail(children), depth)

\* expandAtDepth(root, node, depth, pageData)
expandAtDepth(pg, s, node, depth) ==
    IF depth < 1 THEN CollapseAll(pg, node)
    ELSE With(pg, LAMBDA p :
             With([(IF p.kids[node] = <<>> THEN addHandler(p, s, node) ELSE p)
                      EXCEPT !.expanded = @ \cup {node}],
                  LAMBDA shown : ExpandEach(shown, s, shown.kids[node], depth - 1)))

\* the TreeView renderUI builds for page s: the red, expanded root with its
\* entries and the dummy last child, the root being the current node
NewPageOf(s) ==
    LET root == [kids |-> (Root :> <<>>), expanded |-> {Root},
                 color |-> (Root :> "red"),
                 fileCount |-> (Root :> 1),
                 text |-> (Root :> Escape(FileCountPlaceHolder \o DirPath(s))),
                 current |-> {Root}, hidden |-> {}, panicked |-> FALSE]
        filled == addHandler(root, s, Root)
    IN [filled EXCEPT
           !.kids = (Dummy :> <<>>) @@ [@ EXCEPT ![Root] = Append(@, Dummy)],
           !.color = (Dummy :> "default") @@ @,
           !.text = (Dummy :> Escape(<<32>>)) @@ @]

\* renderUI up to app.Run(): both pages are built, page "1" is in front
NewUI == [front |-> "A", page |-> [s \in Sides |-> NewPageOf(s)],
          lastSelection |-> {}, stopped |-> FALSE]

(***************************************************************************)
(* work: the main goroutine.                                                *)
(***************************************************************************)
\* wg.Wait() of work returns once both mapDir goroutines are done
WorkCompare ==
    /\ proc = "running"
    /\ workPc = "wait"
    /\ workWg = 0
    /\ workPc' = "walkA"
    /\ logged' = logged \cup {<<"Comparing...">>}
    /\ UNCHANGED <<ui, CLI, seed, disk, unreadable, dirMap, dirChan, workers, mapDirPc,
                   workWg, diff, stdout, proc>>

\* mutant of WalkA: the candidates that walkDir has looked at are removed from
\* the buckets of the target index
WalkAConsumesBuckets ==
    /\ proc = "running"
    /\ workPc = "walkA"
    /\ diff' = [diff EXCEPT !["A"] = walkDir(dirMap["A"], dirMap["B"], Root, NewTree)]
    /\ dirMap' = [dirMap EXCEPT !["B"].hashMap = <<>>]
    /\ workPc' = "walkB"
    /\ UNCHANGED <<ui, CLI, seed, disk, unreadable, dirChan, workers, mapDirPc,
                   workWg, stdout, logged, proc>>

\* diffA := dirtree.New(""); walkDir(dirA, dirB, dirA.root, diffA)
WalkA ==
    /\ proc = "running"
    /\ workPc = "walkA"
    /\ diff' = [diff EXCEPT !["A"] = walkDir(dirMap["A"], dirMap["B"], Root, NewTree)]
    /\ workPc' = "walkB"
    /\ UNCHANGED <<ui, CLI, seed, disk, unreadable, dirMap, dirChan, workers, mapDirPc,
                   workWg, stdout, logged, proc>>

\* diffB := dirtree.New(""); walkDir(dirB, dirA, dirB.root, diffB); log "Done"
WalkB ==
    /\ proc = "running"
    /\ workPc = "walkB"
    /\ diff' = [diff EXCEPT !["B"] = walkDir(dirMap["B"], dirMap["A"], Root, NewTree)]
    /\ logged' = logged \cup {<<"Done">>}
    /\ workPc' = "output"
    /\ UNCHANGED <<ui, CLI, seed, disk, unreadable, dirMap, dirChan, workers, mapDirPc,
                   workWg, stdout, proc>>

\* "==========", which opens and closes a header line
Rule == <<61, 61, 61, 61, 61, 61, 61, 61, 61, 61>>

\* "========== Debug for %s ==========" for the root of side s
DebugHeader(s) ==
    Rule \o <<32, 68, 101, 98, 117, 103, 32, 102, 111, 114, 32>> \o DirPath(s)
         \o <<32>> \o Rule

\* "========== Only in %s ==========" for the root of side s
OnlyInHeader(s) ==
    Rule \o <<32, 79, 110, 108, 121, 32, 105, 110, 32>> \o DirPath(s)
         \o <<32>> \o Rule

\* printDebug(dirMap): a line "path hash" for every key of entryMap, in the
\* order of the paths
printDebug(m) ==
    With(SortStrings({DirentPath(n) : n \in DOMAIN m.entryMap}), LAMBDA paths :
        [i \in 1..Len(paths) |->
            paths[i] \o <<32>>
            \o Decimal(m.entryMap[CHOOSE n \in DOMAIN m.entryMap :
                                      DirentPath(n) = paths[i]])])

\* the parts of the text output: workPc names the part whose header is printed
\* and whose lines are being printed
TextParts == {"debugA", "debugB", "onlyA", "onlyB"}

\* the header line of a part
PartHeader(part) ==
    CASE part = "debugA" -> DebugHeader("A")
      [] part = "debugB" -> DebugHeader("B")
      [] part = "onlyA" -> OnlyInHeader("A")
      [] part = "onlyB" -> OnlyInHeader("B")

\* the lines printDebug or printDir print for a part
PartLines(part) ==
    CASE part = "debugA" -> printDebug(dirMap["A"])
      [] part = "debugB" -> printDebug(dirMap["B"])
      [] part = "onlyA" -> printDir(diff["A"], Root)
      [] part = "onlyB" -> printDir(diff["B"], Root)

\* the part work prints after a part
NextPart(part) ==
    CASE part = "debugA" -> "debugB"
      [] part = "debugB" -> "onlyA"
      [] part = "onlyA" -> "onlyB"

\* the header lines
Headers == {DebugHeader(s) : s \in Sides} \cup {OnlyInHeader(s) : s \in Sides}

\* the number of lines printed since the last header
Printed(out) ==
    LET at == {i \in 1..Len(out) : out[i] \in Headers}
    IN Len(out) - (CHOOSE i \in at : \A j \in at : j <= i)

\* CLI.Text: the first Printf of the text output, the header of the debug
\* output of A with CLI.Debug, of "Only in" A without
OutputText ==
    /\ proc = "running"
    /\ workPc = "output"
    /\ CLI.Text
    /\ workPc' = (IF CLI.Debug THEN "debugA" ELSE "onlyA")
    /\ stdout' = Append(stdout, PartHeader(workPc'))
    /\ UNCHANGED <<ui, CLI, seed, disk, unreadable, dirMap, dirChan, workers, mapDirPc,
                   workWg, diff, logged, proc>>

\* one Printf of printDebug or one Println of printDir: the next line of the
\* part; after the last line of "Only in" B work returns nil
PrintEntry ==
    /\ proc = "running"
    /\ workPc \in TextParts
    /\ Printed(stdout) < Len(PartLines(workPc))
    /\ stdout' = Append(stdout, PartLines(workPc)[Printed(stdout) + 1])
    /\ workPc' = (IF workPc = "onlyB" /\ Len(PartLines(workPc)) = Printed(stdout) + 1
                  THEN "return" ELSE workPc)
    /\ UNCHANGED <<ui, CLI, seed, disk, unreadable, dirMap, dirChan, workers, mapDirPc,
                   workWg, diff, logged, proc>>

\* the Printf of the header of the next part, once printDebug or printDir has
\* returned
PrintHeader ==
    /\ proc = "running"
    /\ workPc \in TextParts \ {"onlyB"}
    /\ Printed(stdout) = Len(PartLines(workPc))
    /\ workPc' = NextPart(workPc)
    /\ stdout' = Append(stdout, PartHeader(workPc'))
    /\ UNCHANGED <<ui, CLI, seed, disk, unreadable, dirMap, dirChan, workers, mapDirPc,
                   workWg, diff, logged, proc>>

\* !CLI.Text: renderUI(diffA, diffB) shows the trees until the user quits
OutputUI ==
    /\ proc = "running"
    /\ workPc = "output"
    /\ ~CLI.Text
    /\ workPc' = "ui"
    /\ ui' = NewUI
    /\ UNCHANGED <<CLI, seed, disk, unreadable, dirMap, dirChan, workers, mapDirPc,
                   workWg, diff, stdout, logged, proc>>

\* mutant of Restricted: only the keys of "free move" are restricted
RestrictedInFreeMoveOnly(cur, key) == cur = {} /\ key # "Arrow"

\* the key restrictions at the top of the input handler: in "free move" (no
\* current node) every key but the arrow and page keys is dropped, on the
\* dummy node every key but these, [q] and [space]
Restricted(cur, key) ==
    \/ cur = {} /\ key # "Arrow"
    \/ cur = {Dummy} /\ key \notin {"Arrow", "q", " "}

\* tree.GetCurrentNode() of the front page, for a non-nil current node
CurrentNode(u) == CHOOSE n \in u.page[u.front].current : TRUE

\* a nil pointer is dereferenced or a nil reference is type-asserted
Panic(u) == [u EXCEPT !.page[u.front].panicked = TRUE]

Panicked(u) == \E s \in Sides : u.page[s].panicked

\* the nodes the TreeView of the front page can select
Candidates(u) ==
    {n \in Visible(u.page[u.front]) : Selectable(u.front, n)}

\* TreeView.Draw after the handler: a current node that is not visible or not
\* selectable gives way to the top-most node that is, the root
TreeShown(u) ==
    IF u.page[u.front].current \subseteq Candidates(u) THEN u
    ELSE [u EXCEPT !.page[u.front].current = {Root}]

\* the TreeView's own handling of an arrow or page key: without a current
\* node it scrolls, with one it may move the selection; a current node that
\* it cannot show (one set while nothing was drawn) gives way as in Draw
TreeMoved(u) ==
    IF u.page[u.front].current = {} THEN {u}
    ELSE IF ~(u.page[u.front].current \subseteq Candidates(u)) THEN {TreeShown(u)}
    ELSE {u} \cup {[u EXCEPT !.page[u.front].current = {n}] : n \in Candidates(u)}

\* case KeyUp, KeyDown, KeyPgUp, KeyPgDn
ArrowKey(u, shift) ==
    LET cur == u.page[u.front].current
    IN IF shift
       THEN [u EXCEPT !.lastSelection =
                          IF cur # {} THEN {<<u.front, CurrentNode(u)>>} ELSE @,
                      !.page[u.front].current = {}]
       ELSE IF cur = {} /\ u.lastSelection # {}
            THEN [u EXCEPT !.page[u.front].current =
                               {sel[2] : sel \in u.lastSelection}]
            ELSE u

\* case KeyTab
TabKey(u) ==
    IF u.page[u.front].current \subseteq {Dummy} THEN Panic(u)
    ELSE LET o == Other(u.front)
         IN With(walkToClosestNode(u.page[o], o, DirentPath(CurrentNode(u)), TRUE),
                 LAMBDA w : [u EXCEPT !.front = o,
                                      !.page[o] = [w.page EXCEPT !.current = {w.node}]])

\* case KeyF1
F1Key(u) ==
    IF u.page[u.front].current = {} THEN Panic(u)
    ELSE [u EXCEPT !.page[u.front] =
                       selectHandler(@, u.front, CurrentNode(u), TRUE)]

\* case KeyLeft
LeftKey(u) ==
    IF u.page[u.front].current = {} THEN Panic(u)
    ELSE IF CurrentNode(u) \in u.page[u.front].expanded
         THEN [u EXCEPT !.page[u.front].expanded = @ \ {CurrentNode(u)}]
    ELSE With(getPartsToNode(u.page[u.front], u.front, CurrentNode(u)), LAMBDA w :
             [u EXCEPT !.page[u.front] =
                 IF Len(w.parts) > 1
                 THEN [w.page EXCEPT !.current = {w.parts[Len(w.parts) - 1]}]
                 ELSE w.page])

\* case KeyRight
RightKey(u) ==
    IF u.page[u.front].current = {} THEN Panic(u)
    ELSE IF CurrentNode(u) \notin u.page[u.front].expanded
         THEN [u EXCEPT !.page[u.front] =
                            selectHandler(@, u.front, CurrentNode(u), FALSE)]
    ELSE LET dirs == SelectSeq(u.page[u.front].kids[CurrentNode(u)],
                               LAMBDA c : c # Dummy /\ IsDirNode(u.front, c))
         IN IF dirs = <<>> THEN u
            ELSE [u EXCEPT !.page[u.front].current = {Head(dirs)}]

\* case KeyRune, '1' to '9'
DigitKey(u, depth) ==
    IF u.page[u.front].current = {} THEN Panic(u)
    ELSE [u EXCEPT !.page[u.front] =
                       expandAtDepth(@, u.front, CurrentNode(u), depth)]

\* case KeyRune, ' '
SpaceKey(u) == [u EXCEPT !.front = Other(@)]

\* the node [d] selects next: the directory after the node among the children
\* of its parent, else the last directory before it, else the parent
NextNode(s, children, node, parentNode) ==
    LET pos == IF node \in Elems(children)
               THEN CHOOSE i \in 1..Len(children) :
                        /\ children[i] = node
                        /\ \A j \in 1..(i - 1) : children[j] # node
               ELSE Len(children) + 1
        isDir(i) == children[i] # Dummy /\ IsDirNode(s, children[i])
        after == {i \in 1..Len(children) : i > pos /\ children[i] # node /\ isDir(i)}
        before == {i \in 1..Len(children) : i < pos /\ isDir(i)}
    IN IF after # {} THEN children[CHOOSE i \in after : \A j \in after : i <= j]
       ELSE IF before # {} THEN children[CHOOSE i \in before : \A j \in before : j <= i]
       ELSE parentNode

\* TreeNode.RemoveChild(node): the node leaves the children of its parent,
\* and the TreeView with all of its subtree; hidden keeps the nodes that [d]
\* has removed from the page
RemoveChild(pg, parentNode, node) ==
    With(pg, LAMBDA p :
        IF node \notin Elems(p.kids[parentNode]) THEN p
        ELSE With(Subtree(p, node), LAMBDA gone :
                 [p EXCEPT
                     !.kids = [m \in DOMAIN @ \ gone |->
                                  IF m = parentNode
                                  THEN SelectSeq(@[m], LAMBDA c : c # node) ELSE @[m]],
                     !.expanded = @ \ gone,
                     !.color = [m \in DOMAIN @ \ gone |-> @[m]],
                     !.fileCount = [m \in DOMAIN @ \ gone |-> @[m]],
                     !.text = [m \in DOMAIN @ \ gone |-> @[m]],
                     !.hidden = @ \cup {node}]))

\* case KeyRune, 'd'
DKey(u) ==
    IF u.page[u.front].current = {} THEN Panic(u)
    ELSE LET s == u.front
             node == CurrentNode(u)
         IN With(getPartsToNode(u.page[s], s, node), LAMBDA w :
                IF Len(w.parts) > 1
                THEN LET parentNode == w.parts[Len(w.parts) - 1]
                     IN With(NextNode(s, w.page.kids[parentNode], node, parentNode),
                             LAMBDA nextNode :
                                 [u EXCEPT !.page[s] =
                                     updateFileCounts(
                                         RemoveChild([w.page EXCEPT !.current = {nextNode}],
                                                     parentNode, node),
                                         s, nextNode)])
                ELSE [u EXCEPT !.page[s] = w.page])

\* the input handler takes a key that the restrictions let through; the
\* TreeView is drawn again unless app.Stop() has closed the screen, a panic
\* ends the process
Handle(key, u) ==
    /\ proc = "running"
    /\ workPc = "ui"
    /\ ~Restricted(ui.page[ui.front].current, key)
    /\ ui' = IF ui.stopped THEN u ELSE TreeShown(u)
    /\ proc' = IF Panicked(u) THEN "exit2" ELSE proc
    /\ UNCHANGED <<CLI, seed, disk, unreadable, dirMap, dirChan, workers, mapDirPc,
                   workPc, workWg, diff, stdout, logged>>

\* an arrow or page key, with or without shift: the handler returns the event
\* and the TreeView handles it
KeyArrow ==
    /\ proc = "running"
    /\ workPc = "ui"
    /\ ~Restricted(ui.page[ui.front].current, "Arrow")
    /\ \E shift \in BOOLEAN : ui' \in TreeMoved(ArrowKey(ui, shift))
    /\ UNCHANGED <<CLI, seed, disk, unreadable, dirMap, dirChan, workers, mapDirPc,
                   workPc, workWg, diff, stdout, logged, proc>>

KeyTab == Handle("Tab", TabKey(ui))

KeyF1 == Handle("F1", F1Key(ui))

KeyLeft == Handle("Left", LeftKey(ui))

KeyRight == Handle("Right", RightKey(ui))

KeyDigit == \E depth \in 1..MaxDepth : Handle("Digit", DigitKey(ui, depth))

KeySpace == Handle(" ", SpaceKey(ui))

KeyD == Handle("d", DKey(ui))

\* [q]: app.Stop() closes the screen and has the event loop of app.Run()
\* end after the key events that are already queued
UIQuit ==
    /\ proc = "running"
    /\ workPc = "ui"
    /\ ~Restricted(ui.page[ui.front].current, "q")
    /\ ui' = [ui EXCEPT !.stopped = TRUE]
    /\ UNCHANGED <<CLI, seed, disk, unreadable, dirMap, dirChan, workers, mapDirPc,
                   workPc, workWg, diff, stdout, logged, proc>>

\* Ctrl-C: the event loop of app.Run() calls Stop() itself, the input handler
\* of the layout does not see the key
KeyCtrlC ==
    /\ proc = "running"
    /\ workPc = "ui"
    /\ ui' = [ui EXCEPT !.stopped = TRUE]
    /\ UNCHANGED <<CLI, seed, disk, unreadable, dirMap, dirChan, workers, mapDirPc,
                   workPc, workWg, diff, stdout, logged, proc>>

\* the event loop takes the nil event that follows Stop(): app.Run() returns
\* nil, renderUI returns nil and its pages are gone
RenderUIReturn ==
    /\ proc = "running"
    /\ workPc = "ui"
    /\ ui.stopped
    /\ workPc' = "return"
    /\ ui' = NoUI
    /\ UNCHANGED <<CLI, seed, disk, unreadable, dirMap, dirChan, workers, mapDirPc,
                   workWg, diff, stdout, logged, proc>>

\* work returns nil and main returns: the process exits with status 0
WorkReturn ==
    /\ proc = "running"
    /\ workPc = "return"
    /\ proc' = "exit0"
    /\ UNCHANGED <<ui, CLI, seed, disk, unreadable, dirMap, dirChan, workers, mapDirPc,
                   workPc, workWg, diff, stdout, logged>>

(***************************************************************************)
(* The inputs of a run.                                                     *)
(***************************************************************************)
\* file and directory names: "x", "y", "e", "1", "2"
Nx == <<120>>

Ny == <<121>>

Ne == <<101>>

N1 == <<49>>

N2 == <<50>>

\* Lstat results: same attributes, a larger size, a later modification time
Meta == [mode |-> 420, mtime |-> 5, size |-> 10]

MetaBig == [mode |-> 420, mtime |-> 5, size |-> 11]

MetaLate == [mode |-> 420, mtime |-> 6, size |-> 10]

\* the same attributes with the permission bits 0755
MetaExec == [mode |-> 493, mtime |-> 5, size |-> 10]

\* the directory trees tried as roots
DiskEmpty == [dirs |-> {}, files |-> <<>>]

\* x/1
DiskX1 == [dirs |-> {Nx}, files |-> (JoinPath(Nx, N1) :> Meta)]

\* y/1: x/1 moved to another directory
DiskY1 == [dirs |-> {Ny}, files |-> (JoinPath(Ny, N1) :> Meta)]

\* the name of the i-th of the directories of DiskWide: two digits of base 32
WideName(i) ==
    LET digit(d) == IF d < 10 THEN 48 + d ELSE 87 + d
    IN <<digit(i \div 32), digit(i % 32)>>

\* as many empty directories as dirChan has slots, and after them x/1
DiskWide ==
    [dirs |-> {WideName(i) : i \in 0..(ChanCap - 1)} \cup {Nx},
     files |-> (JoinPath(Nx, N1) :> Meta)]

\* y/1 with another size
DiskY1Big == [dirs |-> {Ny}, files |-> (JoinPath(Ny, N1) :> MetaBig)]

\* x/1 and a copy of it, x/2
DiskTwo == [dirs |-> {Nx},
            files |-> (JoinPath(Nx, N1) :> Meta) @@ (JoinPath(Nx, N2) :> Meta)]

\* a top-level file 1 (modified later) and an empty directory e
DiskE1 == [dirs |-> {Ne}, files |-> (N1 :> MetaLate)]

\* the pairs of roots compared in a run without a failing path
DiskPairs ==
    {<<DiskX1, DiskY1>>, <<DiskX1, DiskY1Big>>, <<DiskX1, DiskTwo>>,
     <<DiskY1, DiskTwo>>, <<DiskTwo, DiskTwo>>, <<DiskE1, DiskEmpty>>,
     <<DiskEmpty, DiskEmpty>>}

\* a root whose listing overflows the queue, beside an empty root
WidePair == <<DiskEmpty, DiskWide>>

\* the pairs of roots compared in a run with --debug
DebugPairs == {<<DiskX1, DiskTwo>>}

\* the pairs of roots compared in a run that shows the GUI
GuiPairs == {<<DiskX1, DiskY1Big>>}

\* the pairs of roots compared in a run with a failing path
FaultPairs == {<<DiskX1, DiskEmpty>>, <<DiskE1, DiskX1>>, <<DiskEmpty, DiskTwo>>}

\* attribute flags: the default (modification time and size), name only, none
FlagsDefault ==
    [UseModTime |-> TRUE, UseSize |-> TRUE, UseMode |-> FALSE,
     UseName |-> FALSE, UsePath |-> FALSE]

FlagsName ==
    [UseModTime |-> FALSE, UseSize |-> FALSE, UseMode |-> FALSE,
     UseName |-> TRUE, UsePath |-> FALSE]

FlagsNone ==
    [UseModTime |-> FALSE, UseSize |-> FALSE, UseMode |-> FALSE,
     UseName |-> FALSE, UsePath |-> FALSE]

FlagSets == {FlagsDefault, FlagsName, FlagsNone}

Seeds == {0, 1}

\* one failing path under one root: a directory (the root included) whose
\* listing fails, or a file whose Lstat fails
Faults(d) ==
    {[s \in Sides |-> IF s = t THEN {p} ELSE {}] :
        t \in Sides, p \in UNION {AllPaths(d[u]) \cup {<<>>} : u \in Sides}}

Readable == [s \in Sides |-> {}]

\* the command line kong.Parse leaves in CLI
Command(f, w, text, debug) ==
    [UseModTime |-> f.UseModTime, UseSize |-> f.UseSize, UseMode |-> f.UseMode,
     UseName |-> f.UseName, UsePath |-> f.UsePath, Workers |-> w,
     Text |-> text, Debug |-> debug]

\* the state when work() has started its two mapDir goroutines
Init ==
    /\ \/ /\ \E f \in FlagSets : CLI = Command(f, 1, TRUE, FALSE)
          /\ seed \in Seeds
          /\ \E pr \in DiskPairs : disk = [s \in Sides |-> IF s = "A" THEN pr[1] ELSE pr[2]]
          /\ unreadable = Readable
       \/ /\ \E w \in 0..MaxWorkers : CLI = Command(FlagsDefault, w, TRUE, FALSE)
          /\ seed = 0
          /\ \E pr \in DiskPairs : disk = [s \in Sides |-> IF s = "A" THEN pr[1] ELSE pr[2]]
          /\ unreadable = Readable
       \/ /\ \E w \in 1..MaxWorkers : CLI = Command(FlagsDefault, w, TRUE, FALSE)
          /\ seed = 0
          /\ \E pr \in FaultPairs : disk = [s \in Sides |-> IF s = "A" THEN pr[1] ELSE pr[2]]
          /\ unreadable \in Faults(disk)
       \/ /\ CLI = Command(FlagsDefault, 1, TRUE, FALSE)
          /\ seed = 0
          /\ disk = [s \in Sides |-> IF s = "A" THEN WidePair[1] ELSE WidePair[2]]
          /\ unreadable = Readable
       \/ /\ CLI = Command(FlagsDefault, 1, TRUE, TRUE)
          /\ seed = 0
          /\ \E pr \in DebugPairs : disk = [s \in Sides |-> IF s = "A" THEN pr[1] ELSE pr[2]]
          /\ unreadable = Readable
       \/ /\ CLI = Command(FlagsDefault, 1, FALSE, FALSE)
          /\ seed = 0
          /\ \E pr \in GuiPairs : disk = [s \in Sides |-> IF s = "A" THEN pr[1] ELSE pr[2]]
          /\ unreadable = Readable
    /\ dirMap = [s \in Sides |-> FreshDirMap]
    /\ dirChan = [s \in Sides |-> <<>>]
    /\ workers = [s \in Sides |-> EmptyBag]
    /\ mapDirPc = [s \in Sides |-> "start"]
    /\ workPc = "wait"
    /\ workWg = 2
    /\ diff = [s \in Sides |-> NoTree]
    /\ stdout = <<>>
    /\ logged = {<<"Mapping directories...">>}
    /\ proc = "running"
    /\ ui = NoUI

Next ==
    \/ \E s \in Sides : MapDirStart(s)
    \/ \E s \in Sides : MapDirReturn(s)
    \/ \E s \in Sides : Receive(s)
    \/ \E s \in Sides : \E st \in Running(s) : ReadDir(s, st)
    \/ \E s \in Sides : \E st \in Running(s) : LoopSend(s, st)
    \/ \E s \in Sides : \E st \in Running(s) : LoopRecurse(s, st)
    \/ \E s \in Sides : \E st \in Running(s) : TreeLock(s, st)
    \/ \E s \in Sides : \E st \in Running(s) : TreeInsert(s, st)
    \/ \E s \in Sides : \E st \in Running(s) : Lstat(s, st)
    \/ \E s \in Sides : \E st \in Running(s) : MapLock(s, st)
    \/ \E s \in Sides : \E st \in Running(s) : MapInsert(s, st)
    \/ \E s \in Sides : \E st \in Running(s) : Return(s, st)
    \/ \E s \in Sides : \E st \in Running(s) : Fatalln(s, st)
    \/ WorkCompare
    \/ WalkA
    \/ WalkB
    \/ RuntimeDeadlock
    \/ OutputText
    \/ PrintEntry
    \/ PrintHeader
    \/ OutputUI
    \/ KeyArrow
    \/ KeyTab
    \/ KeyF1
    \/ KeyLeft
    \/ KeyRight
    \/ KeyDigit
    \/ KeySpace
    \/ KeyD
    \/ UIQuit
    \/ KeyCtrlC
    \/ RenderUIReturn
    \/ WorkReturn

Spec == Init /\ [][Next]_vars

(***************************************************************************)
(* The runs in which hash() is applied to one leaf of each root, under     *)
(* every combination of the attribute flags.                               *)
(***************************************************************************)
\* a root that holds one file, in a directory or at the top level
LeafDisk(path, info) ==
    [dirs |-> IF LastSep(path) = 0 THEN {} ELSE {ParentOf(path)},
     files |-> (path :> info)]

\* x/1, y/1, x/2 and the top-level file 1
LeafPaths == {JoinPath(Nx, N1), JoinPath(Ny, N1), JoinPath(Nx, N2), N1}

LeafInfos == {Meta, MetaBig, MetaLate, MetaExec}

\* every combination of --use-mod-time, --use-size, --use-mode, --use-name
\* and --use-path
AllFlagSets ==
    [{"UseModTime", "UseSize", "UseMode", "UseName", "UsePath"} -> BOOLEAN]

\* root A holds x/1, root B one file of any path and attributes; one worker
\* per scan
InitHash ==
    /\ \E f \in AllFlagSets : CLI = Command(f, 1, TRUE, FALSE)
    /\ seed = 0
    /\ \E p \in LeafPaths, i \in LeafInfos :
          disk = [s \in Sides |-> IF s = "A" THEN LeafDisk(JoinPath(Nx, N1), Meta)
                                             ELSE LeafDisk(p, i)]
    /\ unreadable = Readable
    /\ dirMap = [s \in Sides |-> FreshDirMap]
    /\ dirChan = [s \in Sides |-> <<>>]
    /\ workers = [s \in Sides |-> EmptyBag]
    /\ mapDirPc = [s \in Sides |-> "start"]
    /\ workPc = "wait"
    /\ workWg = 2
    /\ diff = [s \in Sides |-> NoTree]
    /\ stdout = <<>>
    /\ logged = {<<"Mapping directories...">>}
    /\ proc = "running"
    /\ ui = NoUI

\* the steps of the two scans; with one file per directory the single worker
\* of a scan never finds the queue full
NextHash ==
    \/ \E s \in Sides : MapDirStart(s)
    \/ \E s \in Sides : MapDirReturn(s)
    \/ \E s \in Sides : Receive(s)
    \/ \E s \in Sides : \E st \in Running(s) : ReadDir(s, st)
    \/ \E s \in Sides : \E st \in Running(s) : LoopSend(s, st)
    \/ \E s \in Sides : \E st \in Running(s) : TreeLock(s, st)
    \/ \E s \in Sides : \E st \in Running(s) : TreeInsert(s, st)
    \/ \E s \in Sides : \E st \in Running(s) : Lstat(s, st)
    \/ \E s \in Sides : \E st \in Running(s) : MapLock(s, st)
    \/ \E s \in Sides : \E st \in Running(s) : MapInsert(s, st)
    \/ \E s \in Sides : \E st \in Running(s) : Return(s, st)

SpecHash == InitHash /\ [][NextHash]_vars

(***************************************************************************)
(* The scans of fully readable roots by one or more workers, the goroutines *)
(* being scheduled fairly.                                                  *)
(***************************************************************************)
\* pairs of roots: two files in one directory, a file beside an empty
\* directory, a single nested file, no file at all
ScanPairs == {<<DiskTwo, DiskEmpty>>, <<DiskE1, DiskX1>>, <<DiskEmpty, DiskTwo>>}

\* runs without a failing path and with at least one worker, under the
\* default flags
InitScan ==
    /\ seed = 0
    /\ \/ /\ \E w \in 1..MaxWorkers : CLI = Command(FlagsDefault, w, TRUE, FALSE)
          /\ \E pr \in ScanPairs :
                disk = [s \in Sides |-> IF s = "A" THEN pr[1] ELSE pr[2]]
       \/ /\ CLI = Command(FlagsDefault, 1, TRUE, FALSE)
          /\ disk = [s \in Sides |-> IF s = "A" THEN WidePair[1] ELSE WidePair[2]]
    /\ unreadable = Readable
    /\ dirMap = [s \in Sides |-> FreshDirMap]
    /\ dirChan = [s \in Sides |-> <<>>]
    /\ workers = [s \in Sides |-> EmptyBag]
    /\ mapDirPc = [s \in Sides |-> "start"]
    /\ workPc = "wait"
    /\ workWg = 2
    /\ diff = [s \in Sides |-> NoTree]
    /\ stdout = <<>>
    /\ logged = {<<"Mapping directories...">>}
    /\ proc = "running"
    /\ ui = NoUI

\* the steps of the two mapDir calls and of their workers
NextScan ==
    \/ \E s \in Sides : MapDirStart(s)
    \/ \E s \in Sides : MapDirReturn(s)
    \/ \E s \in Sides : Receive(s)
    \/ \E s \in Sides : \E st \in Running(s) : ReadDir(s, st)
    \/ \E s \in Sides : \E st \in Running(s) : LoopSend(s, st)
    \/ \E s \in Sides : \E st \in Running(s) : LoopRecurse(s, st)
    \/ \E s \in Sides : \E st \in Running(s) : TreeLock(s, st)
    \/ \E s \in Sides : \E st \in Running(s) : TreeInsert(s, st)
    \/ \E s \in Sides : \E st \in Running(s) : Lstat(s, st)
    \/ \E s \in Sides : \E st \in Running(s) : MapLock(s, st)
    \/ \E s \in Sides : \E st \in Running(s) : MapInsert(s, st)
    \/ \E s \in Sides : \E st \in Running(s) : Return(s, st)

\* the Go scheduler runs every goroutine that can take a step: as long as
\* some goroutine of the scans can step, one of them does
SpecScanFair == InitScan /\ [][NextScan]_vars /\ WF_vars(NextScan)

(***************************************************************************)
(* The same scans with the insertion loop of mapWorker taken statement by   *)
(* statement.                                                               *)
(***************************************************************************)
NextTree ==
    \/ \E s \in Sides : MapDirStart(s)
    \/ \E s \in Sides : MapDirReturn(s)
    \/ \E s \in Sides : Receive(s)
    \/ \E s \in Sides : \E st \in Running(s) : ReadDir(s, st)
    \/ \E s \in Sides : \E st \in Running(s) : LoopSend(s, st)
    \/ \E s \in Sides : \E st \in Running(s) : LoopRecurse(s, st)
    \/ \E s \in Sides : \E st \in Running(s) : TreeLock(s, st)
    \/ \E s \in Sides : \E st \in Running(s) : TreeChild(s, st)
    \/ \E s \in Sides : \E st \in Running(s) : TreeAdd(s, st)
    \/ \E s \in Sides : \E st \in Running(s) : Lstat(s, st)
    \/ \E s \in Sides : \E st \in Running(s) : MapLock(s, st)
    \/ \E s \in Sides : \E st \in Running(s) : MapInsert(s, st)
    \/ \E s \in Sides : \E st \in Running(s) : Return(s, st)

SpecTree == InitScan /\ [][NextTree]_vars

(***************************************************************************)
(* The comparison, started in the states in which both mapDir calls have    *)
(* returned the index of a fully readable root of up to three files.        *)
(***************************************************************************)
\* x/1, x/2 and y/1
MatchPaths == {JoinPath(Nx, N1), JoinPath(Nx, N2), JoinPath(Ny, N1)}

\* the root that holds the given files, all with the same Lstat result
DiskOf(files) ==
    [dirs |-> {ParentOf(p) : p \in files}, files |-> [p \in files |-> Meta]]

\* the orders in which the workers can reach the map update of the files
RECURSIVE Orders(_)
Orders(files) ==
    IF files = {} THEN {<<>>}
    ELSE UNION {{<<p>> \o o : o \in Orders(files \ {p})} : p \in files}

RECURSIVE Indexed(_, _, _, _)
\* the index after the leaf tasks of the files have run their tree insertion
\* and their map update in the given order
Indexed(idx, cli, sd, order) ==
    IF order = <<>> THEN idx
    ELSE Indexed([idx EXCEPT
                     !.root = InsertParts(@, Root, Split(Head(order), PathSeparator)),
                     !.hashMap = AddToBucket(@, hash(cli, sd, Head(order), Meta),
                                             NodeOf(Head(order))),
                     !.entryMap = (NodeOf(Head(order)) :> hash(cli, sd, Head(order), Meta))
                                      @@ @],
                 cli, sd, Tail(order))

\* the default number of workers
DefaultWorkers == 6

\* both mapDir calls have returned: every worker is parked, the counters are
\* zero, work is about to leave its wg.Wait()
InitMatch ==
    /\ \E f \in FlagSets : CLI = Command(f, DefaultWorkers, TRUE, FALSE)
    /\ seed \in Seeds
    /\ \E fa \in SUBSET MatchPaths, fb \in SUBSET MatchPaths :
          /\ disk = [s \in Sides |-> DiskOf(IF s = "A" THEN fa ELSE fb)]
          /\ \E oa \in Orders(fa), ob \in Orders(fb) :
                dirMap = [s \in Sides |->
                             Indexed(FreshDirMap, CLI, seed, IF s = "A" THEN oa ELSE ob)]
    /\ unreadable = Readable
    /\ dirChan = [s \in Sides |-> <<>>]
    /\ workers = [s \in Sides |-> (Idle :> DefaultWorkers)]
    /\ mapDirPc = [s \in Sides |-> "returned"]
    /\ workPc = "wait"
    /\ workWg = 0
    /\ diff = [s \in Sides |-> NoTree]
    /\ stdout = <<>>
    /\ logged = {<<"Mapping directories...">>, <<"Finished", "A">>, <<"Finished", "B">>}
    /\ proc = "running"
    /\ ui = NoUI

\* the steps of work after its wg.Wait(), in text mode
NextMatch ==
    \/ WorkCompare
    \/ WalkA
    \/ WalkB
    \/ OutputText
    \/ PrintEntry
    \/ PrintHeader
    \/ WorkReturn

SpecMatch == InitMatch /\ [][NextMatch]_vars

(***************************************************************************)
(* The GUI, started in the states in which renderUI has built both pages    *)
(* for the DiffTrees of two roots whose files differ in size.               *)
(***************************************************************************)
\* the files under the two roots: a chain of directories beside an empty root,
\* a file that sorts before a directory, a directory with different files, a
\* directory in one root where the other has a file, two directories beside
\* each other
UIPairs ==
    {<<{JoinPath(JoinPath(Nx, Ny), N1)}, {}>>,
     <<{JoinPath(Ny, N1), N2}, {N2}>>,
     <<{JoinPath(Nx, N1)}, {JoinPath(Nx, N2)}>>,
     <<{JoinPath(Nx, N1)}, {Nx}>>,
     <<{JoinPath(Nx, N1), JoinPath(Ny, N1)}, {}>>}

RECURSIVE DirsAbove(_)
\* the directories on the way to a path
DirsAbove(path) ==
    IF LastSep(path) = 0 THEN {}
    ELSE {ParentOf(path)} \cup DirsAbove(ParentOf(path))

\* the root that holds the given files, all with the Lstat result info
DiskWith(files, info) ==
    [dirs |-> UNION {DirsAbove(p) : p \in files}, files |-> [p \in files |-> info]]

RECURSIVE IndexedDisk(_, _, _, _, _)
\* the index of the root d after the leaf tasks of the files have run their
\* tree insertion and their map update in the given order
IndexedDisk(idx, cli, sd, d, order) ==
    IF order = <<>> THEN idx
    ELSE IndexedDisk([idx EXCEPT
                         !.root = InsertParts(@, Root, Split(Head(order), PathSeparator)),
                         !.hashMap = AddToBucket(@, hash(cli, sd, Head(order),
                                                         d.files[Head(order)]),
                                                 NodeOf(Head(order))),
                         !.entryMap = (NodeOf(Head(order)) :>
                                          hash(cli, sd, Head(order), d.files[Head(order)]))
                                      @@ @],
                     cli, sd, d, Tail(order))

\* renderUI has built the pages and app.Run() waits for the first key
InitUI ==
    /\ CLI = Command(FlagsDefault, DefaultWorkers, FALSE, FALSE)
    /\ seed = 0
    /\ \E pr \in UIPairs :
          disk = [s \in Sides |-> IF s = "A" THEN DiskWith(pr[1], Meta)
                                  ELSE DiskWith(pr[2], MetaBig)]
    /\ unreadable = Readable
    /\ dirMap = [s \in Sides |->
                    IndexedDisk(FreshDirMap, CLI, seed, disk[s],
                                SortStrings(DOMAIN disk[s].files))]
    /\ dirChan = [s \in Sides |-> <<>>]
    /\ workers = [s \in Sides |-> (Idle :> DefaultWorkers)]
    /\ mapDirPc = [s \in Sides |-> "returned"]
    /\ workPc = "ui"
    /\ workWg = 0
    /\ diff = [s \in Sides |-> walkDir(dirMap[s], dirMap[Other(s)], Root, NewTree)]
    /\ stdout = <<>>
    /\ logged = {<<"Mapping directories...">>, <<"Finished", "A">>,
                 <<"Finished", "B">>, <<"Comparing...">>, <<"Done">>}
    /\ proc = "running"
    /\ ui = NewUI

\* the key events, and the return of renderUI
NextUI ==
    \/ KeyArrow
    \/ KeyTab
    \/ KeyF1
    \/ KeyLeft
    \/ KeyRight
    \/ KeyDigit
    \/ KeySpace
    \/ KeyD
    \/ UIQuit
    \/ KeyCtrlC
    \/ RenderUIReturn
    \/ WorkReturn

SpecUI == InitUI /\ [][NextUI]_vars

(***************************************************************************)
(* Vocabulary of the properties.                                            *)
(***************************************************************************)
\* mapDir has returned the index of root s
Scanned(s) == mapDirPc[s] = "returned"

\* root s is fully readable
FullyReadable(s) == unreadable[s] = {}

\* both walkDir calls of work are over
Compared == workPc \in {"output", "ui", "return"} \cup TextParts

\* the nodes of a tree that have no children, the root aside
Leaves(tree) == {n \in tree : n # Root /\ ChildrenOf(tree, n) = {}}

\* path q is p or lies beneath directory p
Beneath(q, p) ==
    \/ q = p
    \/ p = <<>>
    \/ /\ Len(q) > Len(p)
       /\ SubSeq(q, 1, Len(p) + 1) = p \o <<PathSeparator>>

\* the members of all buckets of a hashMap, as <<fingerprint, position>> pairs
Members(hashMap) ==
    UNION {{<<h, i>> : i \in 1..Len(hashMap[h])} : h \in DOMAIN hashMap}

\* a worker of some scan has met a failing ReadDir or Lstat
Failed == \E s \in Sides : \E st \in Running(s) : Top(st).err

\* the scan of root s has met a failing ReadDir or Lstat
FailedIn(s) == \E st \in Running(s) : Top(st).err

\* some bucket of the index of s holds its leaves in the order other than by name
Reordered(s) ==
    \E h \in DOMAIN dirMap[s].hashMap :
        /\ Len(dirMap[s].hashMap[h]) = 2
        /\ dirMap[s].hashMap[h][1][2] = N2

(***************************************************************************)
(* C1.                                                                      *)
(***************************************************************************)
\* C1: once mapDir has returned for a fully readable root, every file and
\* every directory under the root, directories without any file beneath them
\* included, is a node of the index tree at its path.  mapWorker adds nodes
\* for leaf tasks only, so a directory without a file beneath it (e of
\* DiskE1) is missing from the tree.
C1_EveryObjectIndexed ==
    \A s \in Sides :
        Scanned(s) /\ FullyReadable(s) =>
            \A p \in AllPaths(disk[s]) : Split(p, PathSeparator) \in dirMap[s].root

(***************************************************************************)
(* C2.                                                                      *)
(***************************************************************************)
\* C2: once mapDir has returned for a fully readable root, the keys of entryMap
\* are the leaves of the tree, every leaf occurs exactly once over all buckets
\* of hashMap, in the bucket keyed by its entryMap value, and the number of
\* leaves equals the number of bucket members.
C2_LeavesBucketedOnce ==
    \A s \in Sides :
        Scanned(s) /\ FullyReadable(s) =>
            LET m == dirMap[s]
            IN /\ DOMAIN m.entryMap = Leaves(m.root)
               /\ \A leaf \in Leaves(m.root) :
                     /\ m.entryMap[leaf] \in DOMAIN m.hashMap
                     /\ \A hi \in Members(m.hashMap) :
                           m.hashMap[hi[1]][hi[2]] = leaf => hi[1] = m.entryMap[leaf]
                     /\ Cardinality({hi \in Members(m.hashMap) :
                                        m.hashMap[hi[1]][hi[2]] = leaf}) = 1
               /\ Cardinality(Members(m.hashMap)) = Cardinality(Leaves(m.root))

\* a scan by two workers has returned an index with a bucket of two leaves,
\* appended in the order other than the order of their tasks
C2_Witness ==
    \E s \in Sides :
        /\ Scanned(s) /\ FullyReadable(s)
        /\ CLI.Workers = 2
        /\ Reordered(s)

(***************************************************************************)
(* C3.                                                                      *)
(***************************************************************************)
\* the claim's notion of an unmatched leaf of src against tgt: tgt has no
\* bucket for its fingerprint, or the bucket has more than one member and the
\* leaf's path is the path of none of them
Unmatched(src, tgt, leaf) ==
    LET h == src.entryMap[leaf]
    IN \/ h \notin DOMAIN tgt.hashMap
       \/ /\ Len(tgt.hashMap[h]) > 1
          /\ \A i \in 1..Len(tgt.hashMap[h]) : tgt.hashMap[h][i] # leaf

\* C3: after both scans of fully readable roots, the leaves of the DiffTree of
\* each direction are exactly the unmatched leaves of its source index; a leaf
\* whose bucket in the target has exactly one member is not in the DiffTree.
C3_DiffLeavesAreUnmatchedLeaves ==
    (Compared /\ \A s \in Sides : FullyReadable(s)) =>
        \A s \in Sides :
            /\ Leaves(diff[s]) =
                  {leaf \in Leaves(dirMap[s].root) :
                      Unmatched(dirMap[s], dirMap[Other(s)], leaf)}
            /\ \A leaf \in Leaves(dirMap[s].root) :
                  (/\ dirMap[s].entryMap[leaf] \in DOMAIN dirMap[Other(s)].hashMap
                   /\ Len(dirMap[Other(s)].hashMap[dirMap[s].entryMap[leaf]]) = 1)
                  => leaf \notin diff[s]

\* the comparison is over; a leaf of A is in the DiffTree because none of the
\* two candidates has its path, and a leaf of B with a single candidate of
\* another path is not
C3_Witness ==
    /\ Compared
    /\ \A s \in Sides : FullyReadable(s)
    /\ \E leaf \in Leaves(diff["A"]) :
          /\ dirMap["A"].entryMap[leaf] \in DOMAIN dirMap["B"].hashMap
          /\ Len(dirMap["B"].hashMap[dirMap["A"].entryMap[leaf]]) = 2
    /\ \E leaf \in Leaves(dirMap["B"].root) :
          /\ leaf \notin diff["B"]
          /\ leaf \notin dirMap["A"].root

(***************************************************************************)
(* C4.                                                                      *)
(***************************************************************************)
\* C4: for every index returned by the scan of a fully readable root, under
\* every flag set and seed, walkDir of the index against itself leaves the
\* DiffTree empty (its root alone).
C4_SelfDiffEmpty ==
    \A s \in Sides :
        Scanned(s) /\ FullyReadable(s) =>
            walkDir(dirMap[s], dirMap[s], Root, NewTree) = NewTree

\* an index has been returned in which two leaves share a fingerprint, so the
\* self comparison goes through the path fallback
C4_Witness ==
    \E s \in Sides :
        /\ Scanned(s) /\ FullyReadable(s)
        /\ \E h \in DOMAIN dirMap[s].hashMap : Len(dirMap[s].hashMap[h]) = 2
        /\ Reordered(s)
        /\ Compared

(***************************************************************************)
(* C5.                                                                      *)
(***************************************************************************)
\* files a of root s and b of the other root that the enabled attributes
\* cannot tell apart, at different paths
RenamedCopy(s, a, b) ==
    /\ a \in DOMAIN disk[s].files
    /\ b \in DOMAIN disk[Other(s)].files
    /\ a # b
    /\ disk[s].files[a].size = disk[Other(s)].files[b].size
    /\ disk[s].files[a].mtime = disk[Other(s)].files[b].mtime

\* C5 (as claimed): with the name and path flags off, a file that has a copy of
\* the same size and modification time at another path in the other tree is in
\* neither DiffTree, whatever else the trees hold.
C5_RenamedNeverReported ==
    (/\ Compared
     /\ \A s \in Sides : FullyReadable(s)
     /\ ~CLI.UseName /\ ~CLI.UsePath) =>
        \A s \in Sides : \A a \in DOMAIN disk[s].files :
            (\E b \in DOMAIN disk[Other(s)].files : RenamedCopy(s, a, b))
            => Split(a, PathSeparator) \notin diff[s]

\* C5 (amended): with the name and path flags off, a file that has a copy of
\* the same size and modification time (and mode, when the mode flag is on) at
\* another path in the other tree is absent from the DiffTree of its direction
\* if the copy is the only leaf of the other tree with that fingerprint, or if
\* some leaf with that fingerprint sits at the file's own path; when the other
\* tree holds two or more leaves with that fingerprint and none at the file's
\* own path, the file is reported.
C5_RenamedTrackedWhenSingleCandidate ==
    (/\ Compared
     /\ \A s \in Sides : FullyReadable(s)
     /\ ~CLI.UseName /\ ~CLI.UsePath) =>
        \A s \in Sides : \A a \in DOMAIN disk[s].files :
            \A b \in DOMAIN disk[Other(s)].files :
                (/\ RenamedCopy(s, a, b)
                 /\ CLI.UseMode => disk[s].files[a].mode = disk[Other(s)].files[b].mode)
                =>
                LET leaf == Split(a, PathSeparator)
                    copy == Split(b, PathSeparator)
                    tgt == dirMap[Other(s)]
                    bucket == tgt.hashMap[tgt.entryMap[copy]]
                IN /\ tgt.entryMap[copy] = dirMap[s].entryMap[leaf]
                   /\ (leaf \notin diff[s]) <=>
                         \/ Len(bucket) = 1
                         \/ \E i \in 1..Len(bucket) : bucket[i] = leaf

\* the comparison is over under the default flags; x/1 of A has been matched
\* with its moved copy y/1, the only leaf of B
C5_Witness ==
    /\ Compared
    /\ \A s \in Sides : FullyReadable(s)
    /\ CLI.UseModTime /\ CLI.UseSize /\ ~CLI.UseName /\ ~CLI.UsePath
    /\ seed = 0
    /\ disk["A"] = DiskX1 /\ disk["B"] = DiskY1
    /\ diff["A"] = NewTree /\ diff["B"] = NewTree

(***************************************************************************)
(* C6.                                                                      *)
(***************************************************************************)
\* C6: when the target index holds two or more leaves with the source leaf's
\* fingerprint, the source leaf is absent from the DiffTree if one of them has
\* its path and present if none has, whatever the other candidates are and in
\* whatever order the bucket holds them.
C6_CollisionFallback ==
    (Compared /\ \A s \in Sides : FullyReadable(s)) =>
        \A s \in Sides : \A leaf \in Leaves(dirMap[s].root) :
            LET h == dirMap[s].entryMap[leaf]
                tgt == dirMap[Other(s)]
            IN (h \in DOMAIN tgt.hashMap /\ Len(tgt.hashMap[h]) >= 2) =>
                  LET same == {i \in 1..Len(tgt.hashMap[h]) :
                                  DirentPath(tgt.hashMap[h][i]) = DirentPath(leaf)}
                  IN /\ Cardinality(same) = 1 => leaf \notin diff[s]
                     /\ same = {} => leaf \in diff[s]

\* the comparison is over; x/1 of A was matched by path against a bucket of B
\* that holds x/2 before x/1
C6_Witness ==
    /\ Compared
    /\ \A s \in Sides : FullyReadable(s)
    /\ disk["A"] = DiskX1 /\ disk["B"] = DiskTwo
    /\ Reordered("B")
    /\ diff["A"] = NewTree

(***************************************************************************)
(* C7.                                                                      *)
(***************************************************************************)
\* the files of root s that a sequential comparison of the two disks reports:
\* no file of the other root has the fingerprint, or several have and none of
\* them is at the same path
ReportedFiles(s) ==
    LET fp(t, f) == hash(CLI, seed, f, disk[t].files[f])
        candidates(a) == {b \in DOMAIN disk[Other(s)].files : fp(Other(s), b) = fp(s, a)}
    IN {a \in DOMAIN disk[s].files :
           \/ candidates(a) = {}
           \/ Cardinality(candidates(a)) > 1 /\ a \notin candidates(a)}

\* the tree holding the root, the given files and their ancestor directories
TreeOfFiles(d, files) ==
    {Root} \cup {Split(p, PathSeparator) :
                    p \in {q \in AllPaths(d) : \E f \in files : Beneath(f, q)}}

\* C7: for fully readable roots, both DiffTrees are determined by the two
\* disks, the flags and the seed: they are the same for every worker count
\* >= 1 and every interleaving of the workers.
C7_DiffIndependentOfSchedule ==
    (Compared /\ \A s \in Sides : FullyReadable(s)) =>
        \A s \in Sides : diff[s] = TreeOfFiles(disk[s], ReportedFiles(s))

\* the comparison is over after scans by two workers in which a bucket of B
\* was filled out of task order, with a non-empty DiffTree for A
C7_Witness ==
    /\ Compared
    /\ \A s \in Sides : FullyReadable(s)
    /\ CLI.Workers = 2
    /\ Reordered("B")
    /\ diff["A"] # NewTree

(***************************************************************************)
(* C8.                                                                      *)
(***************************************************************************)
\* C8: with a worker count of zero or less, no mapDir call gets as far as
\* queueing the root task and waiting on the pending-work counter.
C8_NonPositiveWorkersRejected ==
    CLI.Workers <= 0 =>
        \A s \in Sides :
            /\ mapDirPc[s] = "start"
            /\ dirChan[s] = <<>>
            /\ dirMap[s].wg = 0

(***************************************************************************)
(* C9.                                                                      *)
(***************************************************************************)
\* C9: once a directory listing or a metadata read has failed in either scan,
\* no walkDir call has run or runs, and nothing is printed or rendered.
C9_NoDiffOutputAfterFailure ==
    Failed =>
        /\ workPc \in {"wait", "walkA"}
        /\ \A s \in Sides : diff[s] = NoTree
        /\ stdout = <<>>

(***************************************************************************)
(* C10.                                                                     *)
(***************************************************************************)
\* C10: once a directory listing or a metadata read has failed in a scan, the
\* run does not complete normally (work does not log "Done", the process does
\* not exit with status 0) and the mapDir call of that scan does not return an
\* index.
C10_FailureEndsRun ==
    /\ Failed => <<"Done">> \notin logged /\ proc # "exit0"
    /\ \A s \in Sides : FailedIn(s) => ~Scanned(s)

(***************************************************************************)
(* C11.                                                                     *)
(***************************************************************************)
RECURSIVE PendingOfStack(_)
\* the tasks a call stack stands for: one per mapWorker call that has not run
\* its wg.Done(), one per child counted by wg.Add and not yet handed off
PendingOfStack(st) ==
    IF st = <<>> THEN 0
    ELSE 1 + Len(Top(st).children) + PendingOfStack(SubSeq(st, 1, Len(st) - 1))

RECURSIVE PendingOfStacks(_, _)
PendingOfStacks(bag, stacks) ==
    IF stacks = {} THEN 0
    ELSE LET st == CHOOSE x \in stacks : TRUE
         IN CopiesIn(st, bag) * PendingOfStack(st) + PendingOfStacks(bag, stacks \ {st})

\* the tasks of scan s that are created and not completed: those in the queue
\* and those the workers hold
Pending(s) == Len(dirChan[s]) + PendingOfStacks(workers[s], Running(s))

\* C11: in a scan without a filesystem error the pending-work counter equals
\* the number of tasks created and not completed, so it is never negative and
\* is zero only when the queue is empty, no worker executes a task and no
\* directory has a child left to hand off; mapDir has returned only in such a
\* state.
C11_CounterCountsPendingTasks ==
    \A s \in Sides :
        FullyReadable(s) =>
            /\ dirMap[s].wg = Pending(s)
            /\ dirMap[s].wg >= 0
            /\ dirMap[s].wg = 0 /\ mapDirPc[s] # "start" =>
                   dirChan[s] = <<>> /\ Running(s) = {}
            /\ Scanned(s) =>
                   dirMap[s].wg = 0 /\ dirChan[s] = <<>> /\ Running(s) = {}

\* a single worker scans the root whose listing overflows the queue: the
\* directories listed before x fill the queue, the worker has visited x and
\* x/1 itself, both calls have returned, and the counter stands at the task of
\* the root plus the queued tasks
C11_Witness ==
    /\ CLI.Workers = 1
    /\ disk["B"] = DiskWide
    /\ FullyReadable("B")
    /\ Len(dirChan["B"]) = ChanCap
    /\ DOMAIN dirMap["B"].entryMap = {<<Nx, N1>>}
    /\ \E st \in Running("B") : Len(st) = 1 /\ Top(st).pc = "Loop"
    /\ dirMap["B"].wg = ChanCap + 1

(***************************************************************************)
(* C12.                                                                     *)
(***************************************************************************)
\* the worker with call stack st has a child of a directory to hand off
HandingOff(st) == Top(st).pc = "Loop" /\ Top(st).children # <<>>

\* frame i of call stack st was called by frame i - 1 on the queue being full:
\* the caller is inside its loop over the children, the callee visits one of
\* them, and that child is neither queued nor left to hand off
RecursedChild(s, st, i) ==
    /\ st[i - 1].isDir
    /\ st[i - 1].pc = "Loop"
    /\ ParentOf(st[i].path) = st[i - 1].path
    /\ \A k \in 1..Len(st[i - 1].children) : st[i - 1].children[k].path # st[i].path
    /\ \A k \in 1..Len(dirChan[s]) : dirChan[s][k].path # st[i].path

\* C12: the queue never holds more than its capacity, and a worker that has a
\* child to hand off can always take a step: with a free slot its only step
\* is to enqueue the child, with a full queue its only step is to visit the
\* child itself, which it does before it returns to the next child.
C12_HandOffNeverBlocks ==
    \A s \in Sides :
        /\ Len(dirChan[s]) <= ChanCap
        /\ \A st \in Running(s) :
              /\ proc = "running" /\ HandingOff(st) =>
                    IF Len(dirChan[s]) < ChanCap
                    THEN ENABLED LoopSend(s, st) /\ ~ ENABLED LoopRecurse(s, st)
                    ELSE ENABLED LoopRecurse(s, st) /\ ~ ENABLED LoopSend(s, st)
              /\ \A i \in 2..Len(st) : RecursedChild(s, st, i)

\* the queue is full and a worker that found it full is visiting a child of
\* its directory itself, and a child of that child: a file, inside the
\* insertion into the tree
C12_Witness ==
    \E s \in Sides : \E st \in Running(s) :
        /\ Len(dirChan[s]) = ChanCap
        /\ Len(st) = 3
        /\ st[1].pc = "Loop"
        /\ st[2].pc = "Loop"
        /\ st[3].pc = "TreeInsert"

(***************************************************************************)
(* C13.                                                                     *)
(***************************************************************************)
\* node n is the node leaf or one of its proper ancestors
OnPathTo(n, leaf) == Len(n) <= Len(leaf) /\ SubSeq(leaf, 1, Len(n)) = n

\* C13: every node of a DiffTree other than the root lies on the path to an
\* unmatched leaf of the source index, and it is childless exactly when it is
\* that leaf: no node stands for a source directory without an unmatched leaf
\* beneath it.
C13_DiffNodesLeadToUnmatchedLeaves ==
    \A s \in Sides : \A n \in diff[s] \ {Root} :
        \E leaf \in DOMAIN dirMap[s].entryMap :
            /\ Unmatched(dirMap[s], dirMap[Other(s)], leaf)
            /\ leaf \in diff[s]
            /\ OnPathTo(n, leaf)
            /\ (ChildrenOf(diff[s], n) = {}) <=> (n = leaf)

\* the comparison is over; the DiffTree of A holds directory y for its
\* unmatched leaf y/1, the DiffTree of B holds nothing for directory x, whose
\* leaves are all matched
C13_Witness ==
    /\ Compared
    /\ diff["A"] = {Root, <<Ny>>, <<Ny, N1>>}
    /\ <<Nx>> \in dirMap["B"].root
    /\ diff["B"] = {Root}

(***************************************************************************)
(* C14.                                                                     *)
(***************************************************************************)
\* node n of root s stands for a directory: it is the root, a directory of
\* the disk, or a node of the index tree that has children
DirectoryNode(s, n) ==
    \/ n = Root
    \/ n # Root /\ Tail(DirentPath(n)) \in disk[s].dirs
    \/ ChildrenOf(dirMap[s].root, n) # {}

\* the nodes recorded in the buckets of the index of s
Bucketed(s) ==
    {dirMap[s].hashMap[hi[1]][hi[2]] : hi \in Members(dirMap[s].hashMap)}

\* C14: in every reachable state, no node that stands for a directory is a key
\* of entryMap or a member of a bucket of hashMap; the recorded nodes are nodes
\* of files of the disk, and only a task whose isDir flag is false is inside
\* the statements that insert, fingerprint and record a leaf.
C14_NoDirectoryFingerprinted ==
    \A s \in Sides :
        /\ \A n \in DOMAIN dirMap[s].entryMap \cup Bucketed(s) : ~DirectoryNode(s, n)
        /\ \A n \in DOMAIN dirMap[s].entryMap \cup Bucketed(s) :
              \E f \in DOMAIN disk[s].files : n = Split(f, PathSeparator)
        /\ \A st \in Running(s) : \A i \in 1..Len(st) :
              st[i].pc \in {"TreeLock", "TreeInsert", "Lstat", "MapLock", "MapInsert"} =>
                  ~st[i].isDir /\ st[i].path \in DOMAIN disk[s].files

\* the scan of a root with a directory has returned with a file recorded in
\* entryMap and in a bucket, and the directory is a node of the index tree
C14_Witness ==
    \E s \in Sides :
        /\ Scanned(s)
        /\ <<Nx>> \in dirMap[s].root
        /\ <<Nx, N1>> \in DOMAIN dirMap[s].entryMap
        /\ <<Nx, N1>> \in Bucketed(s)

(***************************************************************************)
(* C15.                                                                     *)
(***************************************************************************)
\* the worker with call stack st is between treeMutex.Lock() and Unlock()
InTreeSection(st) == \E i \in 1..Len(st) : st[i].pc = "TreeInsert"

\* the worker with call stack st is between mapMutex.Lock() and Unlock()
InMapSection(st) == \E i \in 1..Len(st) : st[i].pc = "MapInsert"

\* the next statement of the worker with call stack st is os.ReadDir or os.Lstat
AtFilesystemCall(st) == Top(st).pc \in {"ReadDir", "Lstat"}

\* C15: in every reachable state a locked mutex is held by a worker that is
\* between its Lock and its Unlock, and no such worker is at a call of
\* os.ReadDir or os.Lstat: a worker that lists a directory or reads metadata
\* holds neither mutex.
C15_NoFilesystemCallUnderMutex ==
    \A s \in Sides :
        /\ dirMap[s].treeMutex => \E st \in Running(s) : InTreeSection(st)
        /\ dirMap[s].mapMutex => \E st \in Running(s) : InMapSection(st)
        /\ \A st \in Running(s) :
              InTreeSection(st) \/ InMapSection(st) => ~AtFilesystemCall(st)

\* a worker is at os.Lstat of its file while another worker of the scan holds
\* treeMutex
C15_Witness ==
    \E s \in Sides :
        /\ dirMap[s].treeMutex
        /\ \E st \in Running(s) : Top(st).pc = "Lstat"
        /\ \E st \in Running(s) : Top(st).pc = "TreeInsert"

(***************************************************************************)
(* C16.                                                                     *)
(***************************************************************************)
\* C16 (as claimed): once mapDir has returned for root s, no worker of that
\* scan is still parked in its receive from the queue.
C16_NoWorkerParkedAfterReturn ==
    \A s \in Sides : Scanned(s) => ~BagIn(Idle, workers[s])

(***************************************************************************)
(* C17.                                                                     *)
(***************************************************************************)
\* the step is the walkDir call of work for the direction with source s
WalkStepOf(s) ==
    /\ workPc = (IF s = "A" THEN "walkA" ELSE "walkB")
    /\ workPc' # workPc

\* C17: a walkDir call of work leaves the index of its source and the index
\* of its target as they were (tree, hashMap, entryMap) and changes no
\* DiffTree but its own; so once both directions have run, each DiffTree is
\* what walkDir returns on the indexes as they are then, whichever direction
\* ran before the other.
C17_WalkDirWritesOnlyItsDiffTree ==
    /\ [][\A s \in Sides :
             WalkStepOf(s) =>
                 /\ dirMap' = dirMap
                 /\ diff'[Other(s)] = diff[Other(s)]
                 /\ diff'[s] = walkDir(dirMap'[s], dirMap'[Other(s)], Root, NewTree)
                 /\ stdout' = stdout]_vars
    /\ [](Compared =>
             \A s \in Sides :
                 diff[s] = walkDir(dirMap[s], dirMap[Other(s)], Root, NewTree))

\* both directions have run on non-empty indexes and each has reported a leaf
C17_Witness ==
    /\ Compared
    /\ \A s \in Sides :
          /\ DOMAIN dirMap[s].entryMap # {}
          /\ Leaves(diff[s]) # {}

(***************************************************************************)
(* C18.                                                                     *)
(***************************************************************************)
\* C18 (as claimed): walkDir runs in neither direction before both mapDir
\* calls have returned, and when it runs every leaf of the tree of either
\* index has its fingerprint in entryMap.
C18_MatcherReadsCompleteIndexes ==
    /\ workPc # "wait" => \A s \in Sides : Scanned(s)
    /\ workPc \in {"walkA", "walkB"} =>
          \A s \in Sides : Leaves(dirMap[s].root) \subseteq DOMAIN dirMap[s].entryMap

(***************************************************************************)
(* C19.                                                                     *)
(***************************************************************************)
RECURSIVE ByteOf(_, _)
\* byte i of the number v, byte 1 being the least significant
ByteOf(v, i) == IF i = 1 THEN v % 256 ELSE ByteOf(v \div 256, i - 1)

\* bytes is the little-endian encoding of v in n bytes
EncodesLittleEndian(bytes, v, n) ==
    Len(bytes) = n /\ \A i \in 1..n : bytes[i] = ByteOf(v, i)

\* the calls of mapWorker of scan s that hold the byte sequence of their leaf
Fingerprinting(s) ==
    {Top(st) : st \in {r \in Running(s) : Top(r).pc \in {"MapLock", "MapInsert"}}}

\* the byte sequence of call f of scan s is made of the enabled attributes of
\* its leaf in the order mode, modification time, size, directory, name
LaidOut(s, f) ==
    LET info == disk[s].files[f.path]
        m == IF CLI.UseMode THEN 4 ELSE 0
        t == IF CLI.UseModTime THEN 8 ELSE 0
        z == IF CLI.UseSize THEN 8 ELSE 0
        n == IF CLI.UseName THEN Len(BaseName(f.path)) ELSE 0
        d == Len(f.data) - (m + t + z + n)
        dir == SubSeq(f.data, m + t + z + 1, m + t + z + d)
    IN /\ d >= 0
       /\ CLI.UseMode => EncodesLittleEndian(SubSeq(f.data, 1, 4), info.mode, 4)
       /\ CLI.UseModTime =>
              EncodesLittleEndian(SubSeq(f.data, m + 1, m + 8), info.mtime, 8)
       /\ CLI.UseSize =>
              EncodesLittleEndian(SubSeq(f.data, m + t + 1, m + t + 8), info.size, 8)
       /\ CLI.UseName => SubSeq(f.data, Len(f.data) - n + 1, Len(f.data)) = BaseName(f.path)
       /\ IF CLI.UsePath
          THEN dir = (IF ParentOf(f.path) = <<>> THEN <<Dot>> ELSE ParentOf(f.path))
                        \o <<PathSeparator>>
          ELSE d = 0

\* the leaves of calls fa of scan A and fb of scan B agree on every enabled
\* attribute
AgreeOnEnabled(fa, fb) ==
    LET ia == disk["A"].files[fa.path]
        ib == disk["B"].files[fb.path]
    IN /\ CLI.UseMode => ia.mode = ib.mode
       /\ CLI.UseModTime => ia.mtime = ib.mtime
       /\ CLI.UseSize => ia.size = ib.size
       /\ CLI.UsePath => ParentOf(fa.path) = ParentOf(fb.path)
       /\ CLI.UseName => BaseName(fa.path) = BaseName(fb.path)

\* C19: the byte sequence fed to the hash for a leaf is the concatenation, in
\* this order, of its mode (4 bytes, little-endian), modification time (8
\* bytes, little-endian), size (8 bytes, little-endian), directory and name,
\* each present only if its flag is enabled; under one configuration a leaf of
\* A and a leaf of B get the same byte sequence iff they agree on every
\* enabled attribute, whatever their other attributes are.
C19_HashDataIsEnabledAttributes ==
    /\ \A s \in Sides : \A f \in Fingerprinting(s) : LaidOut(s, f)
    /\ \A fa \in Fingerprinting("A") : \A fb \in Fingerprinting("B") :
          (fa.data = fb.data) <=> AgreeOnEnabled(fa, fb)

\* with only the name enabled, x/1 of A and y/1 of B, of another size, got the
\* same non-empty byte sequence
C19_Witness ==
    /\ CLI.UseName /\ ~CLI.UsePath /\ ~CLI.UseSize /\ ~CLI.UseModTime /\ ~CLI.UseMode
    /\ disk["B"] = LeafDisk(JoinPath(Ny, N1), MetaBig)
    /\ \E fa \in Fingerprinting("A") : \E fb \in Fingerprinting("B") :
          fa.data = fb.data /\ fa.data = N1

(***************************************************************************)
(* C20.                                                                     *)
(***************************************************************************)
RECURSIVE NodeLess(_, _)
\* node a is visited before node b by a depth-first walk that takes the
\* children of every node in the order of their names
NodeLess(a, b) ==
    IF a = <<>> \/ b = <<>> THEN a = <<>> /\ b # <<>>
    ELSE IF Head(a) # Head(b) THEN StrLess(Head(a), Head(b))
    ELSE NodeLess(Tail(a), Tail(b))

RECURSIVE LinesOf(_)
\* one path line per node of the set, in the order of the walk
LinesOf(nodes) ==
    IF nodes = {} THEN <<>>
    ELSE LET first == CHOOSE n \in nodes : \A o \in nodes \ {n} : NodeLess(n, o)
         IN <<DirentPath(first)>> \o LinesOf(nodes \ {first})

\* the lines of out between the "Only in" header of side s and the next
\* header, or the end
PathLines(out, s) ==
    LET at == {i \in 1..Len(out) : out[i] = OnlyInHeader(s)}
    IN IF at = {} THEN <<>>
       ELSE LET h == CHOOSE i \in at : \A j \in at : i <= j
                later == {j \in (h + 1)..Len(out) : out[j] \in Headers}
            IN SubSeq(out, h + 1,
                      IF later = {} THEN Len(out)
                      ELSE (CHOOSE j \in later : \A k \in later : j <= k) - 1)

\* the step is the last write of the text output of work
TextOutputStep == CLI.Text /\ workPc # "return" /\ workPc' = "return"

\* C20 (as claimed): in text mode the path lines printed for each direction
\* are one line per leaf of its DiffTree, depth-first with the children in
\* the order of their names, and nothing else: no path line for an empty
\* DiffTree.
C20_TextPrintsOneLinePerLeaf ==
    [][TextOutputStep =>
           \A s \in Sides : PathLines(stdout', s) = LinesOf(Leaves(diff[s]))]_vars

(***************************************************************************)
(* C21.                                                                     *)
(***************************************************************************)
\* the entries a page lists: every TreeNode but the root and the dummy node
Entries(s) == DOMAIN ui.page[s].kids \ {Root, Dummy}

\* a node with the same root-relative path exists in both DiffTrees
InBothDiffTrees(n) == \A t \in Sides : n \in diff[t]

\* the entry n of page s stands for a directory of the DiffTree of s
DirectoryEntry(s, n) == \E m \in diff[s] : Len(m) = Len(n) + 1 /\ OnPathTo(n, m)

\* in the children of p, a directory is listed at i and a file at j
DirectoryThenFile(s, p, i, j) ==
    LET kids == ui.page[s].kids[p]
    IN /\ kids[i] # Dummy /\ DirectoryEntry(s, kids[i])
       /\ kids[j] # Dummy /\ ~DirectoryEntry(s, kids[j])

\* C21: in the GUI, a listed file is blue if a node with its path exists in
\* both DiffTrees and white otherwise, a listed directory is yellow if a node
\* with its path exists in both DiffTrees and green otherwise, and no file is
\* listed before a directory of the same parent.
C21_EntriesColoredByPresence ==
    \A s \in Sides :
        /\ \A n \in Entries(s) :
              ui.page[s].color[n] =
                  IF DirectoryEntry(s, n)
                  THEN (IF InBothDiffTrees(n) THEN "yellow" ELSE "green")
                  ELSE (IF InBothDiffTrees(n) THEN "blue" ELSE "white")
        /\ \A p \in DOMAIN ui.page[s].kids :
              \A i, j \in 1..Len(ui.page[s].kids[p]) :
                  DirectoryThenFile(s, p, j, i) => j < i

\* a page lists a green directory before a blue file whose name sorts first,
\* and has loaded a white file under the directory
C21_Witness ==
    \E s \in Sides : \E p \in DOMAIN ui.page[s].kids :
        \E i, j \in 1..Len(ui.page[s].kids[p]) :
            LET kids == ui.page[s].kids[p]
            IN /\ i < j
               /\ DirectoryThenFile(s, p, i, j)
               /\ StrLess(kids[j][Len(kids[j])], kids[i][Len(kids[i])])
               /\ ui.page[s].color[kids[i]] = "green"
               /\ ui.page[s].color[kids[j]] = "blue"
               /\ \E c \in Entries(s) :
                     /\ OnPathTo(kids[i], c) /\ c # kids[i]
                     /\ ui.page[s].color[c] = "white"

(***************************************************************************)
(* C22.                                                                     *)
(***************************************************************************)
\* the roots of the scans
ScanDisks == {pr[i] : pr \in ScanPairs \cup {WidePair}, i \in 1..2}

\* for every root of the scans, the directories that are not empty (the root
\* among them, as the empty path), each with the number of paths beneath it
BelowOf ==
    [d \in ScanDisks |->
        [p \in {ParentOf(q) : q \in AllPaths(d)} |->
            Cardinality({q \in AllPaths(d) : q # p /\ Beneath(q, p)})]]

\* the task of directory p of root s exists and its listing has not been
\* read: the task is queued, or waits among the children of a call, or its
\* call is before os.ReadDir
Unread(s, p) ==
    \/ \E i \in 1..Len(dirChan[s]) : dirChan[s][i].path = p
    \/ \E st \in Running(s) : \E i \in 1..Len(st) :
          \/ st[i].path = p /\ st[i].pc = "ReadDir"
          \/ \E j \in 1..Len(st[i].children) : st[i].children[j].path = p

RECURSIVE UndiscoveredBelow(_, _, _)
\* the number of paths of root s that lie beneath an unread directory of the
\* set: the paths no task has been created for
UndiscoveredBelow(s, below, dirs) ==
    IF dirs = {} THEN 0
    ELSE With(CHOOSE x \in dirs : TRUE, LAMBDA p :
             (IF Unread(s, p) THEN below[p] ELSE 0)
             + UndiscoveredBelow(s, below, dirs \ {p}))

\* the steps a call of mapWorker has before it, the tasks of the children it
\* still has to hand off counting nine each
StepsOfFrame(f) ==
    CASE f.pc = "ReadDir" -> 7
      [] f.pc = "Loop" -> 2 + 9 * Len(f.children)
      [] f.pc = "TreeLock" -> 6
      [] f.pc = "TreeInsert" -> 5
      [] f.pc = "Lstat" -> 4
      [] f.pc = "MapLock" -> 3
      [] f.pc = "MapInsert" -> 2
      [] OTHER -> 1

RECURSIVE StepsOfStack(_)
StepsOfStack(st) ==
    IF st = <<>> THEN 0 ELSE StepsOfFrame(Head(st)) + StepsOfStack(Tail(st))

RECURSIVE StepsOfStacks(_, _)
StepsOfStacks(bag, stacks) ==
    IF stacks = {} THEN 0
    ELSE LET st == CHOOSE x \in stacks : TRUE
         IN CopiesIn(st, bag) * StepsOfStack(st) + StepsOfStacks(bag, stacks \ {st})

\* a bound on the steps that the scan of root s has before it: one for the
\* return of mapDir, eight for a queued task, the steps of the calls, and ten
\* for every path that no task has been created for
StepsLeft(s) ==
    IF mapDirPc[s] = "start" THEN 10 * (1 + Cardinality(AllPaths(disk[s])))
    ELSE IF mapDirPc[s] = "returned" THEN 0
    ELSE 1 + 8 * Len(dirChan[s])
           + StepsOfStacks(workers[s], Running(s))
           + 10 * With(BelowOf[disk[s]], LAMBDA below :
                       UndiscoveredBelow(s, below, DOMAIN below))

\* C22: for fully readable roots and at least one worker, under fair
\* scheduling both mapDir calls eventually return, also when a directory has
\* more children than the queue has slots, when the nesting is deeper than the
\* number of workers and when workers recurse on a full queue.  As long as a
\* mapDir call has not returned some goroutine of the scans can take a step,
\* and every step lowers the bound on the steps left for its scan and leaves
\* the other's alone: a run in which every goroutine that can step is
\* eventually run takes finitely many steps and ends with both calls returned.
C22_EveryScanReturns ==
    /\ []((\E s \in Sides : ~Scanned(s)) => ENABLED NextScan)
    /\ [][\E s \in Sides :
              /\ StepsLeft(s)' < StepsLeft(s)
              /\ StepsLeft(Other(s))' = StepsLeft(Other(s))]_vars

\* mapDir has returned for a root scanned by a single worker: the tree is
\* nested deeper than one worker, the root has more children than the queue
\* has slots, and the other scan has returned as well
C22_Witness ==
    /\ CLI.Workers = 1
    /\ \A s \in Sides : Scanned(s)
    /\ Cardinality({p \in AllPaths(disk["B"]) : ParentOf(p) = <<>>}) > ChanCap
    /\ <<Nx, N1>> \in DOMAIN dirMap["B"].entryMap

(***************************************************************************)
(* C23.                                                                     *)
(***************************************************************************)
RECURSIVE CopiesOf(_, _)
\* the number of goroutines of the bag whose call stack is in the set
CopiesOf(bag, stacks) ==
    IF stacks = {} THEN 0
    ELSE LET st == CHOOSE x \in stacks : TRUE
         IN CopiesIn(st, bag) + CopiesOf(bag, stacks \ {st})

\* the number of workers of scan s that are inside the treeMutex section
InTreeSectionCount(s) ==
    CopiesOf(workers[s], {st \in Running(s) : InTreeSection(st)})

\* C23: whatever the interleaving of the workers, a worker that is about to
\* call Add for a part of its path, having found no child of that name, adds
\* a name that is still missing under that parent; no call ends with the
\* duplicate-child error, and at most one worker is between its look-up and
\* its Add: every ancestor directory is created once.
C23_AddNeverMeetsExistingChild ==
    \A s \in Sides :
        /\ InTreeSectionCount(s) <= 1
        /\ \A st \in Running(s) :
              /\ ~Top(st).err
              /\ Top(st).pc = "TreeInsert" /\ Top(st).newNodeNil =>
                    ~HasChild(dirMap[s].root, Top(st).curNode, PartOf(Top(st)))

\* two workers insert leaves of one directory: the worker of x/2 has found
\* directory x, created by the worker of x/1, and is about to add its leaf
C23_Witness ==
    \E s \in Sides : \E st \in Running(s) :
        /\ CLI.Workers = 2
        /\ Len(st) = 1
        /\ Top(st).pc = "TreeInsert"
        /\ Top(st).path = JoinPath(Nx, N2)
        /\ Top(st).curNode = <<Nx>>
        /\ Top(st).newNodeNil
        /\ <<Nx, N1>> \in dirMap[s].root
        /\ \E other \in Running(s) : Top(other).path = JoinPath(Nx, N1)

(***************************************************************************)
(* C24.                                                                     *)
(***************************************************************************)
\* the number of workers of scan s that are inside the mapMutex section
InMapSectionCount(s) ==
    CopiesOf(workers[s], {st \in Running(s) : InMapSection(st)})

\* C24: in every reachable state each mutex is locked exactly when one worker
\* is inside its section (the insertion loop for treeMutex, the bucket update
\* for mapMutex); no worker is inside both sections, and a call that is at its
\* return or has returned is inside none: while the process runs, a locked
\* mutex always has a holder that can go on to unlock it.
C24_MutexHeldOnlyInsideItsSection ==
    \A s \in Sides :
        /\ InTreeSectionCount(s) = (IF dirMap[s].treeMutex THEN 1 ELSE 0)
        /\ InMapSectionCount(s) = (IF dirMap[s].mapMutex THEN 1 ELSE 0)
        /\ \A st \in Running(s) : ~(InTreeSection(st) /\ InMapSection(st))
        /\ \A st \in Running(s) :
              proc = "running" /\ Top(st).pc \in {"TreeInsert", "MapInsert"} =>
                  ENABLED (TreeChild(s, st) \/ TreeAdd(s, st) \/ MapInsert(s, st))
        /\ BagIn(Idle, workers[s]) /\ Running(s) = {} =>
              ~dirMap[s].treeMutex /\ ~dirMap[s].mapMutex

\* one worker is inside the insertion loop, holding treeMutex, while another
\* worker of the scan is inside the bucket update, holding mapMutex
C24_Witness ==
    \E s \in Sides :
        /\ dirMap[s].treeMutex /\ dirMap[s].mapMutex
        /\ \E st \in Running(s) : Top(st).pc = "TreeInsert" /\ Top(st).curNode # Root
        /\ \E st \in Running(s) : Top(st).pc = "MapInsert"

(***************************************************************************)
(* C25.                                                                     *)
(***************************************************************************)
\* the number of leaves of index idx with fingerprint f
CountOf(idx, f) == IF f \in DOMAIN idx.hashMap THEN Len(idx.hashMap[f]) ELSE 0

\* the leaves of index idx with fingerprint f
LeavesWith(idx, f) == {n \in DOMAIN idx.entryMap : idx.entryMap[n] = f}

\* C25 (as claimed): once the comparison is over, for every fingerprint of
\* which the index of s holds more leaves than the other index, some leaf of
\* s with that fingerprint is in the DiffTree of s.
C25_SurplusLeafReported ==
    Compared =>
        \A s \in Sides : \A f \in DOMAIN dirMap[s].hashMap :
            CountOf(dirMap[s], f) > CountOf(dirMap[Other(s)], f) =>
                \E n \in LeavesWith(dirMap[s], f) : n \in diff[s]

\* C25 (amended): for every fingerprint of which the index of s holds more
\* leaves than the other index, some leaf of s with that fingerprint is in the
\* DiffTree of s if the other index holds no leaf or at least two leaves with
\* it, and none is if the other index holds exactly one.
C25_SurplusReportedUnlessOneCandidate ==
    Compared =>
        \A s \in Sides : \A f \in DOMAIN dirMap[s].hashMap :
            CountOf(dirMap[s], f) > CountOf(dirMap[Other(s)], f) =>
                IF CountOf(dirMap[Other(s)], f) = 1
                THEN \A n \in LeavesWith(dirMap[s], f) : n \notin diff[s]
                ELSE \E n \in LeavesWith(dirMap[s], f) : n \in diff[s]

\* the comparison is over; A holds three leaves of one fingerprint and B two
\* of them, and the leaf that B lacks is in the DiffTree of A
C25_Witness ==
    /\ Compared
    /\ \E f \in DOMAIN dirMap["A"].hashMap :
          /\ CountOf(dirMap["A"], f) = 3
          /\ CountOf(dirMap["B"], f) = 2
          /\ \E n \in LeavesWith(dirMap["A"], f) : n \in diff["A"]

(***************************************************************************)
(* C26.                                                                     *)
(***************************************************************************)
\* leaf a of index s is matched because the bucket of the other index for its
\* fingerprint holds a single leaf, and that leaf is b
SingleCandidate(s, a, b) ==
    /\ a \in DOMAIN dirMap[s].entryMap
    /\ CountOf(dirMap[Other(s)], dirMap[s].entryMap[a]) = 1
    /\ b = dirMap[Other(s)].hashMap[dirMap[s].entryMap[a]][1]

\* C26 (as claimed): once the comparison is over, if leaf a of one index is
\* matched against the single leaf b of its fingerprint in the other index,
\* then b is not in the DiffTree of the other direction.
C26_SingleCandidateMatchedBack ==
    Compared =>
        \A s \in Sides : \A a \in DOMAIN dirMap[s].entryMap :
            \A b \in DOMAIN dirMap[Other(s)].entryMap :
                SingleCandidate(s, a, b) => b \notin diff[Other(s)]

\* C26 (amended): if leaf a of one index is matched against the single leaf b
\* of its fingerprint in the other index, then a is not in the DiffTree of its
\* direction, and b is absent from the DiffTree of the other direction exactly
\* when a is the only leaf of its index with that fingerprint or a leaf of
\* that index with that fingerprint is at the path of b.
C26_MatchedBackUnlessSeveralCandidates ==
    Compared =>
        \A s \in Sides : \A a \in DOMAIN dirMap[s].entryMap :
            \A b \in DOMAIN dirMap[Other(s)].entryMap :
                SingleCandidate(s, a, b) =>
                    /\ a \notin diff[s]
                    /\ b \notin diff[Other(s)] <=>
                          \/ CountOf(dirMap[s], dirMap[s].entryMap[a]) = 1
                          \/ b \in LeavesWith(dirMap[s], dirMap[s].entryMap[a])

\* the comparison is over; leaf a of A is matched against the single leaf b
\* of B at another path, A holds a second leaf with the fingerprint, at the
\* path of b, and neither a nor b is in a DiffTree
C26_Witness ==
    /\ Compared
    /\ \E a \in DOMAIN dirMap["A"].entryMap : \E b \in DOMAIN dirMap["B"].entryMap :
          /\ SingleCandidate("A", a, b)
          /\ a # b
          /\ CountOf(dirMap["A"], dirMap["A"].entryMap[a]) = 2
          /\ b \in LeavesWith(dirMap["A"], dirMap["A"].entryMap[a])
          /\ a \notin diff["A"]
          /\ b \notin diff["B"]

(***************************************************************************)
(* C27.                                                                     *)
(***************************************************************************)
\* none of the five attribute flags is enabled
NoAttribute ==
    ~CLI.UseModTime /\ ~CLI.UseSize /\ ~CLI.UseMode /\ ~CLI.UseName /\ ~CLI.UsePath

\* C27 (as claimed): with the five attribute flags disabled, once the
\* comparison is over a leaf of an index is in its DiffTree iff the other
\* index has no leaf at the same path.
C27_NoAttributeMatchesByPath ==
    (Compared /\ NoAttribute) =>
        \A s \in Sides : \A a \in DOMAIN dirMap[s].entryMap :
            a \in diff[s] <=> a \notin DOMAIN dirMap[Other(s)].entryMap

\* C27 (amended): with the five attribute flags disabled all leaves of both
\* indexes have the same fingerprint, and a leaf of an index is in its
\* DiffTree iff the other index has no leaf at the same path and does not hold
\* exactly one leaf.
C27_NoAttributeMatchesByPathOrSingleLeaf ==
    (Compared /\ NoAttribute) =>
        /\ \A s \in Sides, t \in Sides :
              \A a \in DOMAIN dirMap[s].entryMap : \A b \in DOMAIN dirMap[t].entryMap :
                  dirMap[s].entryMap[a] = dirMap[t].entryMap[b]
        /\ \A s \in Sides : \A a \in DOMAIN dirMap[s].entryMap :
              a \in diff[s] <=>
                  /\ a \notin DOMAIN dirMap[Other(s)].entryMap
                  /\ Cardinality(DOMAIN dirMap[Other(s)].entryMap) # 1

\* no attribute is enabled and the comparison is over: B holds two leaves, the
\* leaf of A that B has at the same path is not in the DiffTree of A, the leaf
\* that B lacks is
C27_Witness ==
    /\ Compared
    /\ NoAttribute
    /\ Cardinality(DOMAIN dirMap["B"].entryMap) = 2
    /\ \E a \in DOMAIN dirMap["A"].entryMap :
          a \in DOMAIN dirMap["B"].entryMap /\ a \notin diff["A"]
    /\ \E a \in DOMAIN dirMap["A"].entryMap :
          a \notin DOMAIN dirMap["B"].entryMap /\ a \in diff["A"]

(***************************************************************************)
(* C28.  The scanner of the first version of the program: mapDir walks the  *)
(* root with filepath.WalkDir, in one goroutine.                            *)
(***************************************************************************)
\* hash(info) of the first version: mode, modification time, size and name,
\* each if enabled; there is no path flag
hashSequential(cli, sd, info, name) ==
    MapHashBytes(sd,
        (IF cli.UseMode THEN LittleEndian(info.mode, 4) ELSE <<>>)
        \o (IF cli.UseModTime THEN LittleEndian(info.mtime, 8) ELSE <<>>)
        \o (IF cli.UseSize THEN LittleEndian(info.size, 8) ELSE <<>>)
        \o (IF cli.UseName THEN name ELSE <<>>))

\* the paths under the root in the order filepath.WalkDir visits them: a
\* directory before its entries, the entries of a directory by name.  That is
\* the order of the paths as byte strings once the separator counts as the
\* lowest byte
WalkKey(p) == [i \in 1..Len(p) |-> IF p[i] = PathSeparator THEN 0 ELSE p[i]]

WalkOrder(paths) ==
    With(SortStrings({WalkKey(p) : p \in paths}), LAMBDA keys :
        [i \in 1..Len(keys) |->
            [j \in 1..Len(keys[i]) |->
                IF keys[i][j] = 0 THEN PathSeparator ELSE keys[i][j]]])

RECURSIVE WalkDirFunc(_, _, _, _, _)
\* the index after the walk function has been called on the paths of the
\* sequence, one after the other: every path becomes a node of the tree, every
\* file is fingerprinted and added to its bucket
WalkDirFunc(idx, cli, sd, d, order) ==
    IF order = <<>> THEN idx
    ELSE IF Len(order) = 1
    THEN LET rel == Head(order)
             curNode == Split(rel, PathSeparator)
             tree == InsertParts(idx.root, Root, Split(rel, PathSeparator))
             h == hashSequential(cli, sd, d.files[rel], BaseName(rel))
         IN IF rel \in d.dirs
            THEN [idx EXCEPT !.root = tree]
            ELSE [idx EXCEPT
                     !.root = tree,
                     !.hashMap = IF h \in DOMAIN @
                                 THEN [@ EXCEPT ![h] = Append(@, curNode)]
                                 ELSE (h :> <<curNode>>) @@ @,
                     !.entryMap = (curNode :> h) @@ @]
    ELSE With(WalkDirFunc(idx, cli, sd, d, SubSeq(order, 1, Len(order) \div 2)),
              LAMBDA half :
                  WalkDirFunc(half, cli, sd, d,
                              SubSeq(order, Len(order) \div 2 + 1, Len(order))))

\* mapDir(dir) of the first version for a readable root
mapDirSequential(cli, sd, d) ==
    WalkDirFunc([root |-> NewTree, hashMap |-> <<>>, entryMap |-> <<>>],
                cli, sd, d, WalkOrder(AllPaths(d)))

\* the leaves of a bucket, whatever their order
BucketSet(hashMap, h) == {hashMap[h][i] : i \in 1..Len(hashMap[h])}

\* C28: with the path flag off, the index that the concurrent mapDir returns
\* for a fully readable root, under every worker count >= 1 and every
\* interleaving, has the leaves of the index of the sequential scanner, each
\* with the same fingerprint, and the same buckets with the same members.
C28_SameLeavesAndBucketsAsSequential ==
    \A s \in Sides :
        (Scanned(s) /\ FullyReadable(s) /\ ~CLI.UsePath) =>
            With(mapDirSequential(CLI, seed, disk[s]), LAMBDA seq :
                /\ dirMap[s].entryMap = seq.entryMap
                /\ DOMAIN dirMap[s].hashMap = DOMAIN seq.hashMap
                /\ \A h \in DOMAIN seq.hashMap :
                      /\ Len(dirMap[s].hashMap[h]) = Len(seq.hashMap[h])
                      /\ BucketSet(dirMap[s].hashMap, h) = BucketSet(seq.hashMap, h))

\* two workers have scanned x/1, x/2 and filled the bucket of the two leaves
\* in the order other than that of the sequential walk
C28_Witness ==
    \E s \in Sides :
        /\ Scanned(s)
        /\ FullyReadable(s)
        /\ CLI.Workers = 2
        /\ disk[s] = DiskTwo
        /\ \E h \in DOMAIN dirMap[s].hashMap :
              /\ dirMap[s].hashMap[h] = <<<<Nx, N2>>, <<Nx, N1>>>>
              /\ mapDirSequential(CLI, seed, disk[s]).hashMap[h]
                     = <<<<Nx, N1>>, <<Nx, N2>>>>

(***************************************************************************)
(* C29.                                                                     *)
(***************************************************************************)
\* C29 (as claimed): a node removed with [d] is not a child of its former
\* parent again, whatever keys follow.
C29_RemovedNodeStaysHidden ==
    \A s \in Sides : \A n \in ui.page[s].hidden :
        n \notin Elems(ui.page[s].kids[SubSeq(n, 1, Len(n) - 1)])

(***************************************************************************)
(* C30.                                                                     *)
(***************************************************************************)
\* C30: whatever keys the handler has taken, in "free move" and on the dummy
\* node included, it has neither used a nil current node nor type-asserted a
\* nil reference: no page has panicked and the process has not died of one.
C30_HandlerNeverUsesNil == ~Panicked(ui) /\ proc # "exit2"

\* the dummy node is the current node after "free move" has been used, and
\* toggle-all has reached the dummy node, whose reference is nil
C30_Witness ==
    /\ workPc = "ui"
    /\ ui.page[ui.front].current = {Dummy}
    /\ ui.lastSelection # {}
    /\ Dummy \in ui.page[ui.front].expanded

(***************************************************************************)
(* C31.                                                                     *)
(***************************************************************************)
\* the step hides the node n of page s: n is the current node of the front
\* page and is no TreeNode of the page afterwards
Hides(s, n) ==
    /\ ui.front = s
    /\ ui.page[s].current = {n}
    /\ n \in DOMAIN ui.page[s].kids
    /\ n \notin DOMAIN ui'.page[s].kids

\* node a is a proper ancestor of node n
AncestorOf(a, n) == a # n /\ OnPathTo(a, n)

\* C31 (as claimed): hiding a node whose count is c with [d] lowers the count
\* of each of its ancestors by exactly c and leaves the count and the text of
\* every other node of the page as they were, a sibling directory whose
\* children are not loaded included.
C31_HideLowersAncestorsOnly ==
    [][\A s \in Sides : \A n \in DOMAIN ui.page[s].kids \ {Root, Dummy} :
          Hides(s, n) =>
              \A m \in DOMAIN ui'.page[s].kids \ {Dummy} :
                  IF AncestorOf(m, n)
                  THEN ui'.page[s].fileCount[m]
                           = ui.page[s].fileCount[m] - ui.page[s].fileCount[n]
                  ELSE /\ ui'.page[s].fileCount[m] = ui.page[s].fileCount[m]
                       /\ ui'.page[s].text[m] = ui.page[s].text[m]]_vars

====
